---- MODULE Spec2Model ----
(***************************************************************************)
(* Model of beep/features/core.py: the statistical summary                 *)
(* (CycleSummaryStats.get_summary_statistics), the threshold-crossing      *)
(* solver (DiagnosticProperties.get_threshold_targets) and the exclusion   *)
(* rules (ExclusionCriteria.create_features).                              *)
(*                                                                         *)
(* Real numbers are modelled exactly: a quantity is an integer in a fixed  *)
(* unit, or a fraction <<numerator, denominator>>.  Floating-point         *)
(* rounding is not modelled.  A non-finite float (nan, inf) is a value of  *)
(* its own.                                                                *)
(***************************************************************************)
EXTENDS Integers, Sequences, FiniteSets, TLC

VARIABLES
    pc,              \* "ready" before the call, "done" after it
    statistics,      \* hyperparameters["statistics"] of a CycleSummaryStats
    array,           \* the array handed to get_summary_statistics
    stats_out,       \* what get_summary_statistics returned or raised
    structured_summary,     \* datapath.structured_summary, one row per regular cycle
    diag_fractional,        \* get_fractional_quantity_remaining_nx(datapath, ...)
    structuring_parameters, \* datapath.structuring_parameters
    parameters,             \* get_protocol_parameters(file_path, parameters_dir)
    features,               \* ExclusionCriteria.features, or the exception raised
    inspected,              \* the cycles whose data the early-CV loop has read
    df,              \* the diagnostic table handed to get_threshold_targets
    tc_hyper,        \* the hyperparameters of the DiagnosticProperties
    tc_out,          \* what get_threshold_targets returned or raised
    extractor,       \* the class of the featurizer the datapath is handed to
    hyperparameters, \* its hyperparameters
    structured_data, \* datapath.structured_data, one row per interpolated point
    sd_columns,      \* the columns of structured_data
    diagnostic_data,        \* datapath.diagnostic_data
    diagnostic_summary,     \* datapath.diagnostic_summary, one row per diagnostic cycle
    paths,           \* datapath.paths
    valid,           \* what validate returned or raised
    outcome          \* what create_features did: the difference arrays, the
                     \* features, or the exception raised

statsVars == <<statistics, array, stats_out>>
ecVars == <<structured_summary, diag_fractional, structuring_parameters,
            parameters, features, inspected>>
tcVars == <<df, tc_hyper, tc_out>>
dpVars == <<extractor, hyperparameters, structured_data, sd_columns,
            diagnostic_data, diagnostic_summary, paths, valid, outcome>>

(***************************************************************************)
(* Arithmetic helpers                                                      *)
(***************************************************************************)
Abs(n) == IF n < 0 THEN -n ELSE n

RECURSIVE GCD(_, _)
GCD(a, b) == IF b = 0 THEN a ELSE GCD(b, a % b)

\* A float is a fraction <<n, d>> with d >= 0.  d > 0: the number n/d.
\* d = 0: not finite; <<0, 0>> is nan, <<1, 0>> is inf and <<-1, 0>> is -inf.
NaN == <<0, 0>>
Inf == <<1, 0>>
IsNaN(x) == x = NaN
IsFinite(x) == x[2] > 0
Num(n) == <<n, 1>>

\* a < b and a > b on floats; false as soon as one side is nan
FLt(a, b) ==
    /\ ~IsNaN(a) /\ ~IsNaN(b)
    /\ IF IsFinite(a) /\ IsFinite(b) THEN a[1] * b[2] < b[1] * a[2]
       ELSE IF IsFinite(a) THEN b[1] > 0
       ELSE IF IsFinite(b) THEN a[1] < 0
       ELSE a[1] < b[1]
FGt(a, b) == FLt(b, a)

\* the non-negative fraction |n/d| in lowest terms; x/0 is nan (0/0) or inf
Frac(n, d) ==
    IF d = 0 THEN (IF n = 0 THEN NaN ELSE Inf)
    ELSE LET g == GCD(Abs(n), Abs(d)) IN <<Abs(n) \div g, Abs(d) \div g>>

RECURSIVE SumSeq(_)
SumSeq(s) == IF s = <<>> THEN 0 ELSE Head(s) + SumSeq(Tail(s))

RECURSIVE MinSeq(_)
MinSeq(s) ==
    IF Len(s) = 1 THEN s[1]
    ELSE LET m == MinSeq(Tail(s)) IN IF Head(s) <= m THEN Head(s) ELSE m

\* sum over the array of (n*x - sum)^k: n^(k+1) times the k-th central moment
PowerSum(s, k) ==
    LET n == Len(s)
        t == SumSeq(s)
        d(i) == n * s[i] - t
        p(i) == IF k = 2 THEN d(i) * d(i)
                ELSE IF k = 3 THEN d(i) * d(i) * d(i)
                ELSE d(i) * d(i) * d(i) * d(i)
    IN  SumSeq([i \in 1..n |-> p(i)])

(***************************************************************************)
(* CycleSummaryStats.get_summary_statistics                                *)
(***************************************************************************)
\* DEFAULT_HYPERPARAMETERS["statistics"]
supported_stats == <<"var", "min", "mean", "skew", "kurtosis", "abs", "square">>

InSeq(x, s) == \E i \in 1..Len(s) : s[i] = x

\* np.log10 of a non-negative argument; the argument is kept, exactly
Log10(arg) == [fn |-> "log10", arg |-> arg]

\* np.log10(np.absolute(np.var(a))): population variance
StatVar(a) ==
    LET n == Len(a) IN Log10(Frac(PowerSum(a, 2), n * n * n))

\* np.log10(np.absolute(min(a)))
StatMin(a) == Log10(Frac(MinSeq(a), 1))

\* np.log10(np.absolute(np.mean(a)))
StatMean(a) == Log10(Frac(SumSeq(a), Len(a)))

\* np.log10(np.absolute(skew(a))): m3 / m2^1.5, kept as its square
StatSkew(a) ==
    LET s2 == PowerSum(a, 2)
        s3 == PowerSum(a, 3)
    IN  [fn |-> "log10sqrt", arg |-> Frac(Len(a) * s3 * s3, s2 * s2 * s2)]

\* np.log10(np.absolute(kurtosis(a, fisher=False, bias=False)))
StatKurtosis(a) ==
    LET n == Len(a)
        s2 == PowerSum(a, 2)
        s4 == PowerSum(a, 4)
    IN  IF n > 3 /\ s2 > 0
        THEN Log10(Frac((n * n - 1) * n * s4 - 3 * (n - 1) * (n - 1) * s2 * s2
                           + 3 * (n - 2) * (n - 3) * s2 * s2,
                        (n - 2) * (n - 3) * s2 * s2))
        ELSE Log10(Frac(n * s4, s2 * s2))

\* np.log10(np.sum(np.absolute(a)))
StatAbs(a) == Log10(Frac(SumSeq([i \in 1..Len(a) |-> Abs(a[i])]), 1))

\* np.log10(np.sum(np.square(a)))
StatSquare(a) == Log10(Frac(SumSeq([i \in 1..Len(a) |-> a[i] * a[i]]), 1))

\* the statistic a name stands for
Statistic(name, a) ==
    CASE name = "var" -> StatVar(a)
      [] name = "min" -> StatMin(a)
      [] name = "mean" -> StatMean(a)
      [] name = "skew" -> StatSkew(a)
      [] name = "kurtosis" -> StatKurtosis(a)
      [] name = "abs" -> StatAbs(a)
      [] name = "square" -> StatSquare(a)

\* the chain of `if "<name>" in stats_names: stats.append(...)`: one value
\* for each supported name that occurs in stats_names, in the order of the
\* chain
RECURSIVE AppendStats(_, _, _)
AppendStats(stats_names, a, i) ==
    IF i > Len(supported_stats) THEN <<>>
    ELSE (IF InSeq(supported_stats[i], stats_names)
          THEN <<Statistic(supported_stats[i], a)>> ELSE <<>>)
         \o AppendStats(stats_names, a, i + 1)

\* the check of the names made on the first name only
get_summary_statistics_first_name(stats_names, a) ==
    IF stats_names # <<>> /\ ~InSeq(stats_names[1], supported_stats)
    THEN [status |-> "ValueError", msg |-> "Unsupported statistics", stats |-> <<>>]
    ELSE IF InSeq("min", stats_names) /\ a = <<>>
    THEN [status |-> "ValueError", msg |-> "min() arg is an empty sequence",
          stats |-> <<>>]
    ELSE [status |-> "ok", msg |-> "", stats |-> AppendStats(stats_names, a, 1)]

get_summary_statistics(stats_names, a) ==
    IF \E i \in 1..Len(stats_names) : ~InSeq(stats_names[i], supported_stats)
    THEN [status |-> "ValueError", msg |-> "Unsupported statistics", stats |-> <<>>]
    ELSE IF InSeq("min", stats_names) /\ a = <<>>
    THEN \* the builtin min() of an empty array raises
         [status |-> "ValueError", msg |-> "min() arg is an empty sequence",
          stats |-> <<>>]
    ELSE [status |-> "ok", msg |-> "", stats |-> AppendStats(stats_names, a, 1)]

(***************************************************************************)
(* Inputs of the statistical summary                                       *)
(***************************************************************************)
MaxStats == 2
MaxArrayLen == 2

SeqsUpTo(S, n) == UNION {[1..k -> S] : k \in 0..n}

\* the names a caller may configure: the supported ones and one that is not
StatNames == {supported_stats[i] : i \in 1..Len(supported_stats)} \cup {"median"}

ArrayValues == {-2, 1, 3}

NoStats == [status |-> "none", msg |-> "", stats |-> <<>>]

StatsIdle ==
    /\ statistics = <<>>
    /\ array = <<>>
    /\ stats_out = NoStats

CallGetSummaryStatistics ==
    /\ pc = "ready"
    /\ stats_out' = get_summary_statistics(statistics, array)
    /\ pc' = "done"
    /\ UNCHANGED <<statistics, array, ecVars, tcVars, dpVars>>

(***************************************************************************)
(* DiagnosticProperties.get_threshold_targets                              *)
(*                                                                         *)
(* A row of df is [cycle_index, normalized_regular_throughput, n,          *)
(* fractional_metric, initial_regular_throughput].  fractional_metric and  *)
(* the threshold are integers in units of 1/YScale; the x columns are      *)
(* integers and increase along the table.  filter_kinks = 0 stands for     *)
(* None: `if filter_kinks:` takes neither.                                 *)
(***************************************************************************)
YScale == 2 * 10

\* num=1000 of np.linspace
NumSamples == 1000

\* the 0.1 of `threshold - 0.1`
ExtrapolationMargin == YScale \div 10

Min(S) == CHOOSE v \in S : \A w \in S : v <= w
Max(S) == CHOOSE v \in S : \A w \in S : w <= v

\* the fraction n/d, d # 0, in lowest terms with a positive denominator
Reduced(n, d) ==
    LET g == GCD(Abs(n), Abs(d))
    IN  IF d > 0 THEN <<n \div g, d \div g>> ELSE <<(-n) \div g, (-d) \div g>>

Column(row, axis) ==
    CASE axis = "cycle_index" -> row.cycle_index
      [] axis = "normalized_regular_throughput" -> row.normalized_regular_throughput
      [] axis = "n" -> row.n

\* df['fractional_metric'].diff().diff() at row i >= 3 (nan at rows 1 and 2)
SecondDiff(d, i) ==
    d[i].fractional_metric - 2 * d[i - 1].fractional_metric
        + d[i - 2].fractional_metric

\* lines 827-831
filter_kinks_df(d, filter_kinks) ==
    IF filter_kinks = 0 THEN d
    ELSE LET kinks == {i \in 3..Len(d) : SecondDiff(d, i) < filter_kinks}
         IN  IF kinks = {} THEN d
             ELSE LET last_good_cycle == Min({d[i].cycle_index : i \in kinks})
                  IN  SelectSeq(d, LAMBDA r : r.cycle_index < last_good_cycle)

MinMetric(d) == Min({d[i].fractional_metric : i \in 1..Len(d)})

\* x_thresh_extrap taken from the first two rows
x_thresh_extrap_first_rows(d, axis, threshold) ==
    LET y1 == d[1].fractional_metric
        y2 == d[2].fractional_metric
        x1 == Column(d[1], axis)
        x2 == Column(d[2], axis)
        n == (threshold - ExtrapolationMargin - y1) * (x2 - x1) + x1 * (y2 - y1)
    IN  IF y2 > y1 THEN <<n, y2 - y1>> ELSE <<-n, y1 - y2>>

\* lines 851-856: x_thresh_extrap of an axis as a fraction <<n, d>>, d > 0, from
\* the last two rows; the last two metric values are different
x_thresh_extrap(d, axis, threshold) ==
    LET L == Len(d)
        y1 == d[L - 1].fractional_metric
        y2 == d[L].fractional_metric
        x1 == Column(d[L - 1], axis)
        x2 == Column(d[L], axis)
        n == (threshold - ExtrapolationMargin - y1) * (x2 - x1) + x1 * (y2 - y1)
    IN  IF y2 > y1 THEN <<n, y2 - y1>> ELSE <<-n, y1 - y2>>

\* np.linspace(a, b, num=1000)[k] for the integer a and the fraction b
Linspace(a, b, k) ==
    <<(NumSamples - 1) * a * b[2] + k * (b[1] - a * b[2]), (NumSamples - 1) * b[2]>>

\* interp1d(x_axis, y, kind='linear') at the point g: the row at the right end
\* of the segment used, searched from row i on; outside the rows, the first or
\* the last segment
RECURSIVE SegmentEnd(_, _, _)
SegmentEnd(xs, g, i) ==
    IF i >= Len(xs) \/ g[1] <= xs[i] * g[2] THEN i ELSE SegmentEnd(xs, g, i + 1)

\* the product of the widths of the segments from row i on
RECURSIVE WidthProduct(_, _)
WidthProduct(xs, i) ==
    IF i > Len(xs) THEN 1 ELSE (xs[i] - xs[i - 1]) * WidthProduct(xs, i + 1)

\* f(g) - threshold without the abs
CrossingErrorSigned(xs, ys, threshold, g, widths) ==
    LET hi == SegmentEnd(xs, g, 2)
        dx == xs[hi] - xs[hi - 1]
    IN  ((ys[hi - 1] - threshold) * g[2] * dx
              + (ys[hi] - ys[hi - 1]) * (g[1] - xs[hi - 1] * g[2]))
            * (widths \div dx)

\* abs(f(g) - threshold) at the point g = <<gn, gd>>, times gd * widths: the
\* same factor at every point of one linspace
CrossingError(xs, ys, threshold, g, widths) ==
    LET hi == SegmentEnd(xs, g, 2)
        dx == xs[hi] - xs[hi - 1]
    IN  Abs((ys[hi - 1] - threshold) * g[2] * dx
              + (ys[hi] - ys[hi - 1]) * (g[1] - xs[hi - 1] * g[2]))
            * (widths \div dx)

\* the last of the smallest samples instead of the first
RECURSIVE ArgMin_last_on_ties(_, _, _, _, _, _, _, _)
ArgMin_last_on_ties(xs, ys, threshold, a, b, widths, lo, hi) ==
    IF lo = hi
    THEN <<lo, CrossingError(xs, ys, threshold, Linspace(a, b, lo), widths)>>
    ELSE LET mid == (lo + hi) \div 2
             l == ArgMin_last_on_ties(xs, ys, threshold, a, b, widths, lo, mid)
             r == ArgMin_last_on_ties(xs, ys, threshold, a, b, widths, mid + 1, hi)
         IN  IF l[2] < r[2] THEN l ELSE r

\* np.argmin of crossing_array over the samples lo..hi of the linspace from a
\* to b: <<index, value>> of the first smallest
RECURSIVE ArgMin(_, _, _, _, _, _, _, _)
ArgMin(xs, ys, threshold, a, b, widths, lo, hi) ==
    IF lo = hi
    THEN <<lo, CrossingError(xs, ys, threshold, Linspace(a, b, lo), widths)>>
    ELSE LET mid == (lo + hi) \div 2
             l == ArgMin(xs, ys, threshold, a, b, widths, lo, mid)
             r == ArgMin(xs, ys, threshold, a, b, widths, mid + 1, hi)
         IN  IF l[2] <= r[2] THEN l ELSE r

\* interp1d orders its points by x (assume_sorted=False); the x values of a
\* table are distinct
SortByAxis(d, axis) ==
    LET Rank(i) == Cardinality({j \in 1..Len(d) :
                                   Column(d[j], axis) < Column(d[i], axis)}) + 1
    IN  [k \in 1..Len(d) |-> d[CHOOSE i \in 1..Len(d) : Rank(i) = k]]

\* lines 850-866 and 881-886 for one axis: the sample of the linspace from
\* x_axis.min() to b at which abs(f(x) - threshold) is smallest
CrossingOnGrid(d, axis, threshold, b) ==
    LET OnSorted(s) ==
            LET xs == [i \in 1..Len(s) |-> Column(s[i], axis)]
                ys == [i \in 1..Len(s) |-> s[i].fractional_metric]
                a == Min({xs[i] : i \in 1..Len(s)})
                widths == WidthProduct(xs, 2)
                k == ArgMin(xs, ys, threshold, a, b, widths, 0, NumSamples - 1)[1]
                g == Linspace(a, b, k)
            IN  Reduced(g[1], g[2])
    IN  \* the points are ordered once, before the samples are evaluated
        CHOOSE x \in {OnSorted(s) : s \in {SortByAxis(d, axis)}} : TRUE

\* the crossing value of one axis.  With equal last two metric values
\* x_thresh_extrap is a division by zero: the linspace starts with nan, and so
\* does abs(f(x) - threshold), whose argmin is that first sample.
x_to_threshold(d, axis, threshold, extrapolating) ==
    IF extrapolating
    THEN IF d[Len(d)].fractional_metric = d[Len(d) - 1].fractional_metric
         THEN NaN
         ELSE CrossingOnGrid(d, axis, threshold, x_thresh_extrap(d, axis, threshold))
    ELSE CrossingOnGrid(d, axis, threshold,
                        <<Max({Column(d[i], axis) : i \in 1..Len(d)}), 1>>)

Positive(x) == FGt(x, Num(0))

\* lines 888-892: `~(x_to_threshold[0] > 0) or ~(x_to_threshold[1] > 0)`
positive_value_check(x) ==
    IF Len(x) = 0 THEN "IndexError"
    ELSE IF ~Positive(x[1]) THEN "BEEPFeaturizationError"
    ELSE IF Len(x) = 1 THEN "IndexError"
    ELSE IF ~Positive(x[2]) THEN "BEEPFeaturizationError"
    ELSE "ok"

IndexOf(s, x) == Min({i \in 1..Len(s) : s[i] = x})

\* the table with the normalized crossing value repeated as the real one
threshold_table_unscaled(d, axes, x) ==
    LET initial == d[1].initial_regular_throughput
        nrt == "normalized_regular_throughput"
        real == IF InSeq(nrt, axes)
                THEN <<[column |-> "real_regular_throughput",
                        value |-> x[IndexOf(axes, nrt)]]>>
                ELSE <<>>
    IN  <<[column |-> "initial_regular_throughput", value |-> Num(initial)]>>
        \o [i \in 1..Len(axes) |-> [column |-> axes[i], value |-> x[i]]]
        \o real

\* lines 894-914: the one-row table, a sequence of [column, value]; the column
\* is named after the axis
threshold_table(d, axes, x) ==
    LET initial == d[1].initial_regular_throughput
        nrt == "normalized_regular_throughput"
        real == IF InSeq(nrt, axes)
                THEN LET v == x[IndexOf(axes, nrt)]
                     IN  <<[column |-> "real_regular_throughput",
                            value |-> Reduced(v[1] * initial, v[2])]>>
                ELSE <<>>
    IN  <<[column |-> "initial_regular_throughput", value |-> Num(initial)]>>
        \o [i \in 1..Len(axes) |-> [column |-> axes[i], value |-> x[i]]]
        \o real

\* lines 839-844 and 868-878: the error for a series that has not crossed the
\* threshold is constructed and not raised; the call goes on to interp1d with
\* bounds_error and fill_value never assigned
not_crossed_status == "UnboundLocalError"

get_threshold_targets(table, hp) ==
    LET d == filter_kinks_df(table, hp.filter_kinks)
        axes == hp.interpolation_axes
        above == MinMetric(d) > hp.threshold
    IN  IF above /\ ~hp.extrapolate_threshold
        THEN [status |-> not_crossed_status,
              msg |-> "local variable referenced before assignment",
              df |-> d, x_to_threshold |-> <<>>, table |-> <<>>]
        ELSE
        LET x == [i \in 1..Len(axes) |->
                     x_to_threshold(d, axes[i], hp.threshold, above)]
            check == positive_value_check(x)
        IN  [status |-> check,
             msg |-> IF check = "BEEPFeaturizationError"
                     THEN "does not have a positive value to threshold" ELSE "",
             df |-> d, x_to_threshold |-> x,
             table |-> IF check = "ok" THEN threshold_table(d, axes, x) ELSE <<>>]

(***************************************************************************)
(* ExclusionCriteria.create_features                                       *)
(*                                                                         *)
(* structured_summary is indexed by cycle_index: a row is                  *)
(*   [cycle_index, charge_throughput, cycle_start_time, CV_onset_time,     *)
(*    cycle_end_time]                                                      *)
(* where the three times are what the early-CV loop reads for that cycle   *)
(* from structured_data (the smallest and largest test_time of the cycle   *)
(* and the first test_time of the CV segment of its charge).               *)
(* diag_fractional is the table of the diagnostic cycles of the EOL cycle  *)
(* type: a row is [cycle_index, fractional_metric].                        *)
(***************************************************************************)
\* the hyperparameters the extractor was constructed with, in small numbers
ECHyper ==
    [throughput_first_n_cycles |-> [n |-> 2, cutoff |-> Num(2)],
     EOL_conditions |-> [threshold |-> <<8, 10>>],
     equivalent_full_cycles_cutoff |-> Num(2),
     early_CV_cutoff |-> <<3, 10>>]

\* a cell of a boolean column: True, False, or nan where the column has no
\* value for the row
Cell(b) == IF b THEN "True" ELSE "False"
Missing == "nan"
\* bool(x) of a cell: nan is truthy
Truthy(c) == c # "False"

FillNa0(x) == IF IsNaN(x) THEN Num(0) ELSE x

\* fillna(method='ffill') of the column, at row i
RECURSIVE FfillAt(_, _)
FfillAt(column, i) ==
    IF i = 1 \/ ~IsNaN(column[i]) THEN column[i]
    ELSE FfillAt(column, i - 1)

FracMetric(rows) == [i \in 1..Len(rows) |-> rows[i].fractional_metric]
ChargeThroughput(rows) == [i \in 1..Len(rows) |-> rows[i].charge_throughput]

\* the throughput of the row at position n instead of the row of index n
first_n_cycles_throughput_iloc(summary, hp) ==
    LET n == hp.throughput_first_n_cycles.n
        at == {i \in 1..Len(summary) : i = n}
    IN  [i \in at |-> FillNa0(summary[i].charge_throughput)]

\* lines 969-979: the throughput at cycle n, nan counted as 0
first_n_cycles_throughput(summary, hp) ==
    LET n == hp.throughput_first_n_cycles.n
        at == {i \in 1..Len(summary) : summary[i].cycle_index = n}
    IN  [i \in at |-> FillNa0(summary[i].charge_throughput)]

\* the judged values without the guard of lines 990-992
fractional_capacity_at_EOT_last(diag) ==
    <<FfillAt(FracMetric(diag), Len(diag))>>

\* lines 987-992: the forward-filled fractional values that are judged; the
\* last one, or the last two when the last one exceeds 1
fractional_capacity_at_EOT(diag) ==
    LET L == Len(diag)
        last == FfillAt(FracMetric(diag), L)
    IN  IF FGt(last, Num(1)) /\ L >= 2
        THEN <<FfillAt(FracMetric(diag), L - 1), last>>
        ELSE <<last>>

\* the cutoff cycle taken at the first value below the threshold whenever
\* there is one
cutoff_cycle_index_first_crossing(diag, is_below, threshold) ==
    LET below == {i \in 1..Len(diag) : FLt(diag[i].fractional_metric, threshold)}
    IN  IF below # {}
        THEN diag[CHOOSE i \in below : \A j \in below : i <= j].cycle_index
        ELSE diag[Len(diag)].cycle_index

\* lines 1002-1009
cutoff_cycle_index(diag, is_below, threshold) ==
    IF is_below
    THEN LET below == {i \in 1..Len(diag) : FLt(diag[i].fractional_metric, threshold)}
             first == CHOOSE i \in below : \A j \in below : i <= j
         IN  diag[first].cycle_index
    ELSE diag[Len(diag)].cycle_index

\* lines 1012-1019
nominal_capacity(sp, params) ==
    IF sp.has_nominal_capacity THEN sp.nominal_capacity ELSE params.capacity_nominal

\* lines 1021-1026: the forward-filled charge_throughput of the last regular
\* cycle at or before the cutoff, over the nominal capacity; no value when no
\* regular cycle is at or before the cutoff
equivalent_full_cycles_at_EOL(summary, cutoff_cycle, nominal) ==
    LET before == {i \in 1..Len(summary) : summary[i].cycle_index <= cutoff_cycle}
    IN  IF before = {} THEN <<>>
        ELSE LET r == CHOOSE i \in before : \A j \in before : j <= i
                 t == FfillAt(ChargeThroughput(summary), r)
             IN  <<(IF IsNaN(t) THEN NaN ELSE <<t[1], t[2] * nominal>>)>>

\* (CV_onset_time - cycle_start_time)/(cycle_end_time - cycle_start_time)
CV_onset_frac(row) ==
    <<row.CV_onset_time - row.cycle_start_time,
      row.cycle_end_time - row.cycle_start_time>>

\* the loop without its break: every cycle up to the cutoff cycle is examined
RECURSIVE EarlyCVLoop_no_break(_, _, _, _)
EarlyCVLoop_no_break(summary, cutoff_cycle, early_CV_cutoff, i) ==
    IF i > Len(summary) THEN [is_not_early_CV |-> TRUE, cycles |-> <<>>]
    ELSE IF summary[i].cycle_index > cutoff_cycle
    THEN EarlyCVLoop_no_break(summary, cutoff_cycle, early_CV_cutoff, i + 1)
    ELSE LET rest == EarlyCVLoop_no_break(summary, cutoff_cycle, early_CV_cutoff, i + 1)
         IN  [is_not_early_CV |->
                 rest.is_not_early_CV
                     /\ ~FLt(CV_onset_frac(summary[i]), early_CV_cutoff),
              cycles |-> <<summary[i].cycle_index>> \o rest.cycles]

\* lines 1047-1066: the loop over the regular cycles up to the cutoff cycle,
\* from row i on; it stops at the first cycle whose CV onset is early
RECURSIVE EarlyCVLoop(_, _, _, _)
EarlyCVLoop(summary, cutoff_cycle, early_CV_cutoff, i) ==
    IF i > Len(summary) THEN [is_not_early_CV |-> TRUE, cycles |-> <<>>]
    ELSE IF summary[i].cycle_index > cutoff_cycle
    THEN EarlyCVLoop(summary, cutoff_cycle, early_CV_cutoff, i + 1)
    ELSE IF FLt(CV_onset_frac(summary[i]), early_CV_cutoff)
    THEN [is_not_early_CV |-> FALSE, cycles |-> <<summary[i].cycle_index>>]
    ELSE LET rest == EarlyCVLoop(summary, cutoff_cycle, early_CV_cutoff, i + 1)
         IN  [is_not_early_CV |-> rest.is_not_early_CV,
              cycles |-> <<summary[i].cycle_index>> \o rest.cycles]

\* the rule with the test of the two currents made strict
is_not_early_CV_strict(summary, params, cutoff_cycle, hp) ==
    IF params.charge_constant_current_1 < params.charge_constant_current_2
    THEN [is_not_early_CV |-> TRUE, cycles |-> <<>>]
    ELSE EarlyCVLoop(summary, cutoff_cycle, hp.early_CV_cutoff, 1)

\* lines 1040-1068
is_not_early_CV(summary, params, cutoff_cycle, hp) ==
    IF params.charge_constant_current_1 <= params.charge_constant_current_2
    THEN [is_not_early_CV |-> TRUE, cycles |-> <<>>]
    ELSE EarlyCVLoop(summary, cutoff_cycle, hp.early_CV_cutoff, 1)

\* the conjunction without the last criterion column
to_include_but_last(flags) == \A i \in 1..(Len(flags) - 1) : Truthy(flags[i])

\* lines 1071-1072: all([row[c] for c in exclusion_criteria_columns])
to_include(flags) == \A i \in 1..Len(flags) : Truthy(flags[i])

\* the rows of a table that takes the length of its longest column
feature_rows_longest(tp, at_EOT) == Max({Cardinality(DOMAIN tp), Len(at_EOT)})

\* lines 978 and 997: the first column assigned gives the empty table its
\* index; a later column is aligned on that index and adds no row
feature_rows(tp, at_EOT) == Cardinality(DOMAIN tp)

NoFeatures ==
    [status |-> "none", rows |-> 0,
     first_n_cycles_throughput |-> NaN,
     is_above_first_n_cycles_throughput |-> Missing,
     fractional_capacity_at_EOT |-> NaN,
     is_below_fractional_capacity_at_EOT |-> Missing,
     equivalent_full_cycles_at_EOL |-> NaN,
     is_above_equivalent_full_cycles_at_EOL |-> Missing,
     is_not_early_CV |-> Missing,
     to_include |-> Missing]

\* The whole of create_features.  The first column assigned to the empty
\* table gives the table its rows (one per structured_summary row of index
\* n); every later column is aligned on them, so row 0 takes element 0 of the
\* column and nan where the column is empty.  With no row at index n the
\* table is empty and line 1002 raises.
ExclusionCriteria_create_features(summary, diag, sp, params, hp) ==
    LET tp == first_n_cycles_throughput(summary, hp)
    IN  IF DOMAIN tp = {}
        THEN [features |-> [NoFeatures EXCEPT !.status = "IndexError"],
              inspected |-> <<>>]
        ELSE
        LET first_n == tp[CHOOSE i \in DOMAIN tp : TRUE]
            above_n == FGt(first_n, hp.throughput_first_n_cycles.cutoff)
            threshold == hp.EOL_conditions.threshold
            at_EOT == fractional_capacity_at_EOT(diag)[1]
            below == FLt(at_EOT, threshold)
            cutoff_cycle == cutoff_cycle_index(diag, below, threshold)
            nominal == nominal_capacity(sp, params)
            efc == equivalent_full_cycles_at_EOL(summary, cutoff_cycle, nominal)
            efc_flag == IF efc = <<>> THEN Missing
                        ELSE Cell(FGt(efc[1], hp.equivalent_full_cycles_cutoff))
            cv == is_not_early_CV(summary, params, cutoff_cycle, hp)
            flags == <<Cell(above_n), Cell(below), efc_flag,
                       Cell(cv.is_not_early_CV)>>
        IN  [features |->
               [status |-> "ok",
                rows |-> feature_rows(tp, fractional_capacity_at_EOT(diag)),
                first_n_cycles_throughput |-> first_n,
                is_above_first_n_cycles_throughput |-> flags[1],
                fractional_capacity_at_EOT |-> at_EOT,
                is_below_fractional_capacity_at_EOT |-> flags[2],
                equivalent_full_cycles_at_EOL |->
                    IF efc = <<>> THEN NaN ELSE efc[1],
                is_above_equivalent_full_cycles_at_EOL |-> flags[3],
                is_not_early_CV |-> flags[4],
                to_include |-> Cell(to_include(flags))],
             inspected |-> cv.cycles]

(***************************************************************************)
(* Inputs of the exclusion criteria                                        *)
(***************************************************************************)
MaxRegular == 2
MaxDiag == 3

\* the cycle_index of the i-th diagnostic cycle of the EOL cycle type
DiagCycle(i) == 2 * i - 1
\* the cycle_index of the j-th regular cycle of a run whose regular cycles
\* start at cycle `first` (0, or 2: after the first diagnostic)
RegularCycle(j, first) == first + 2 * (j - 1)

ThroughputValues == {NaN, Num(1), Num(5)}
CVOnsetOffsets == {2, 3}
FractionalValues == {NaN, <<7, 10>>, <<9, 10>>, <<11, 10>>}

SummaryRow(c, t, o) ==
    [cycle_index |-> c, charge_throughput |-> t, cycle_start_time |-> 10 * c,
     CV_onset_time |-> 10 * c + o, cycle_end_time |-> 10 * c + 10]

Summaries ==
    UNION {
      { [j \in 1..k |-> SummaryRow(RegularCycle(j, first), t[j], o[j])] :
          t \in [1..k -> ThroughputValues], o \in [1..k -> CVOnsetOffsets] } :
      k \in 1..MaxRegular, first \in {0, 2} }

\* The metric of a diagnostic cycle is a fraction of its value at the first
\* diagnostic cycle, so the first row holds 1.
Diagnostics ==
    UNION {
      { [i \in 1..k |-> [cycle_index |-> DiagCycle(i),
                         fractional_metric |-> IF i = 1 THEN Num(1) ELSE f[i]]] :
          f \in [1..k -> FractionalValues] } :
      k \in 1..MaxDiag }

NoTargets ==
    [status |-> "none", msg |-> "", df |-> <<>>, x_to_threshold |-> <<>>,
     table |-> <<>>]

TCIdle ==
    /\ df = <<>>
    /\ tc_hyper = [threshold |-> 0, filter_kinks |-> 0,
                   extrapolate_threshold |-> FALSE, interpolation_axes |-> <<>>]
    /\ tc_out = NoTargets

NotValidated == [status |-> "none", ok |-> FALSE, reason |-> ""]
NoOutcome == [status |-> "none", at |-> "", before |-> <<>>, diffs |-> <<>>]

\* no featurizer of the datapath group is in use
DPIdle ==
    /\ extractor = "none"
    /\ hyperparameters = <<>>
    /\ structured_data = <<>>
    /\ sd_columns = {}
    /\ diagnostic_data = <<>>
    /\ diagnostic_summary = <<>>
    /\ paths = {}
    /\ valid = NotValidated
    /\ outcome = NoOutcome

ECIdle ==
    /\ structured_summary = <<>>
    /\ diag_fractional = <<>>
    /\ structuring_parameters = [has_nominal_capacity |-> FALSE, nominal_capacity |-> 0]
    /\ parameters = [charge_constant_current_1 |-> 0, charge_constant_current_2 |-> 0,
                     capacity_nominal |-> 1]
    /\ features = NoFeatures
    /\ inspected = <<>>

InitStats ==
    /\ pc = "ready"
    /\ DPIdle
    /\ statistics \in SeqsUpTo(StatNames, MaxStats)
    /\ array \in SeqsUpTo(ArrayValues, MaxArrayLen)
    /\ stats_out = NoStats
    /\ ECIdle
    /\ TCIdle

InitEC ==
    /\ pc = "ready"
    /\ DPIdle
    /\ StatsIdle
    /\ TCIdle
    /\ structured_summary \in Summaries
    /\ diag_fractional \in Diagnostics
    /\ structuring_parameters \in
         {[has_nominal_capacity |-> FALSE, nominal_capacity |-> 0],
          [has_nominal_capacity |-> TRUE, nominal_capacity |-> 2]}
    /\ parameters \in
         {[charge_constant_current_1 |-> c[1], charge_constant_current_2 |-> c[2],
           capacity_nominal |-> 1] : c \in {<<1, 2>>, <<2, 2>>, <<2, 1>>}}
    /\ features = NoFeatures
    /\ inspected = <<>>

CallExclusionCriteria ==
    /\ pc = "ready"
    /\ LET r == ExclusionCriteria_create_features(
                    structured_summary, diag_fractional, structuring_parameters,
                    parameters, ECHyper)
       IN  /\ features' = r.features
           /\ inspected' = r.inspected
    /\ pc' = "done"
    /\ UNCHANGED <<statsVars, tcVars, dpVars, structured_summary, diag_fractional,
                   structuring_parameters, parameters>>

vars == <<pc, statsVars, ecVars, tcVars, dpVars>>

NextStats == CallGetSummaryStatistics
SpecStats == InitStats /\ [][NextStats]_vars

NextEC == CallExclusionCriteria
SpecEC == InitEC /\ [][NextEC]_vars

(***************************************************************************)
(* Inputs of the threshold-crossing solver                                 *)
(***************************************************************************)
MaxPoints == 3
MaxKinkPoints == 4

\* the x columns of the i-th diagnostic cycle
XCycleIndex(i) == 9 + i + (i \div 3)
XThroughput(i) == i - 1
XN(i) == 20 + 2 * i - (i % 2)

\* the metric is a fraction of its value at the first diagnostic cycle
MetricValues == {15, 16, 18, 19, 21}

DfRow(i, y) ==
    [cycle_index |-> XCycleIndex(i), normalized_regular_throughput |-> XThroughput(i),
     n |-> XN(i), fractional_metric |-> y, initial_regular_throughput |-> 3]

Tables(longest) ==
    UNION {
      { [i \in 1..k |-> DfRow(i, IF i = 1 THEN YScale ELSE y[i])] :
          y \in [1..k -> MetricValues] } :
      k \in 2..longest }

AxesChoices ==
    {<<"normalized_regular_throughput", "cycle_index">>,
     <<"cycle_index">>,
     <<"cycle_index", "n">>,
     <<"cycle_index", "n", "normalized_regular_throughput">>}

InitTC ==
    /\ pc = "ready"
    /\ DPIdle
    /\ StatsIdle
    /\ ECIdle
    /\ df \in Tables(MaxPoints)
    /\ tc_hyper \in
         [threshold : {16}, filter_kinks : {0, 1},
          extrapolate_threshold : BOOLEAN, interpolation_axes : AxesChoices]
    /\ tc_out = NoTargets

\* the solver with the kink filter set, on longer tables
InitKinks ==
    /\ pc = "ready"
    /\ DPIdle
    /\ StatsIdle
    /\ ECIdle
    /\ df \in Tables(MaxKinkPoints)
    /\ tc_hyper \in
         [threshold : {16}, filter_kinks : {1},
          extrapolate_threshold : BOOLEAN,
          interpolation_axes : {<<"normalized_regular_throughput", "cycle_index">>}]
    /\ tc_out = NoTargets

CallGetThresholdTargets ==
    /\ pc = "ready"
    /\ tc_out' = get_threshold_targets(df, tc_hyper)
    /\ pc' = "done"
    /\ UNCHANGED <<statsVars, ecVars, dpVars, df, tc_hyper>>

NextTC == CallGetThresholdTargets
SpecTC == InitTC /\ [][NextTC]_vars

NextKinks == CallGetThresholdTargets
SpecKinks == InitKinks /\ [][NextKinks]_vars

(***************************************************************************)
(* The featurizers that read the datapath: validate, then create_features  *)
(* once validate has returned True.  pc is "ready", "validated", "done".   *)
(* A table is a sequence of rows, a row a record of its columns; a value   *)
(* of a float column is a fraction, nan, inf or -inf.  Of the features of  *)
(* CycleSummaryStats and DiagnosticSummaryStats the model keeps the arrays *)
(* handed to get_summary_statistics, which determine them.                 *)
(***************************************************************************)
NegInf == <<-1, 0>>

\* a - b on floats
FSub(a, b) ==
    IF IsNaN(a) \/ IsNaN(b) THEN NaN
    ELSE IF IsFinite(a) /\ IsFinite(b) THEN <<a[1] * b[2] - b[1] * a[2], a[2] * b[2]>>
    ELSE IF IsFinite(b) THEN a
    ELSE IF IsFinite(a) THEN <<-b[1], 0>>
    ELSE IF a[1] = b[1] THEN NaN ELSE a

\* the values of a column in the rows of a cycle and, where given, a step type
Selection(rows, cycle, step_type, column) ==
    LET Chosen(r) == r.cycle_index = cycle /\ (step_type = "" \/ r.step_type = step_type)
        kept == SelectSeq(rows, Chosen)
    IN  [i \in 1..Len(kept) |-> kept[i][column]]

\* broadcasting two one-dimensional arrays only when their lengths are equal
Broadcastable_equal_lengths(later, earlier) == Len(later) = Len(earlier)

\* numpy broadcasting of two one-dimensional arrays: equal lengths, or one of
\* them of length 1
Broadcastable(later, earlier) ==
    Len(later) = Len(earlier) \/ Len(later) = 1 \/ Len(earlier) = 1

\* later.values - earlier.values
Subtract(later, earlier) ==
    LET n == IF Len(later) = Len(earlier) THEN Len(later)
             ELSE IF Len(later) = 1 THEN Len(earlier) ELSE Len(later)
    IN  [i \in 1..n |-> FSub(later[IF Len(later) = 1 THEN 1 ELSE i],
                             earlier[IF Len(earlier) = 1 THEN 1 ELSE i])]

\* the array with nothing dropped
DropNothing(a) == a

\* a[~np.isnan(a)]
DropNaN(a) ==
    LET NotNaN(x) == ~IsNaN(x) IN SelectSeq(a, NotNaN)

\* lines 169-170, 415-416 and alike: the difference of two selections without
\* its nan entries, or the ValueError of the subtraction
difference(later, earlier) ==
    IF ~Broadcastable(later, earlier)
    THEN [status |-> "ValueError", array |-> <<>>]
    ELSE [status |-> "ok", array |-> DropNaN(Subtract(later, earlier))]

\* whether get_summary_statistics raises on the array: lines 232-234, and min()
\* of line 241 on an empty array
statistics_status(stats_names, a) ==
    IF \E i \in 1..Len(stats_names) : ~InSeq(stats_names[i], supported_stats)
    THEN "ValueError"
    ELSE IF InSeq("min", stats_names) /\ a = <<>> THEN "ValueError"
    ELSE "ok"

\* The difference steps of create_features from step i on: each takes the
\* difference of two selections and hands it to get_summary_statistics; the
\* first exception ends the call.
RECURSIVE RunDifferences(_, _, _)
RunDifferences(steps, stats_names, i) ==
    IF i > Len(steps) THEN [status |-> "ok", at |-> "", diffs |-> <<>>]
    ELSE LET d == difference(steps[i].later, steps[i].earlier)
             step == [name |-> steps[i].name, later |-> steps[i].later,
                      earlier |-> steps[i].earlier,
                      status |-> d.status, array |-> d.array]
         IN  IF d.status # "ok"
             THEN [status |-> "ValueError", at |-> "difference", diffs |-> <<step>>]
             ELSE IF statistics_status(stats_names, d.array) # "ok"
             THEN [status |-> "ValueError", at |-> "get_summary_statistics",
                   diffs |-> <<step>>]
             ELSE LET rest == RunDifferences(steps, stats_names, i + 1)
                  IN  [rest EXCEPT !.diffs = <<step>> \o @]

(***************************************************************************)
(* CycleSummaryStats                                                       *)
(***************************************************************************)
required_columns ==
    {"charge_capacity", "discharge_capacity", "charge_energy", "discharge_energy"}

\* the columns that validate and create_features read
AllColumns == required_columns \cup {"cycle_index", "step_type"}

CSSHyper == [cycle_comp_num |-> <<10, 100>>, statistics |-> supported_stats]

\* lines 98-136; the reason None is the empty string.  Lines 115-118 read
\* the column cycle_index before any test of the columns.
CycleSummaryStats_validate(data, columns, hp) ==
    IF "cycle_index" \notin columns
    THEN [status |-> "AttributeError", ok |-> FALSE, reason |-> ""]
    ELSE IF \E k \in 1..2 : Selection(data, hp.cycle_comp_num[k], "", "cycle_index") = <<>>
    THEN [status |-> "ok", ok |-> FALSE,
          reason |-> "Length of one or more comparison cycles is zero"]
    ELSE IF ~(required_columns \subseteq columns)
    THEN [status |-> "ok", ok |-> FALSE,
          reason |-> "Required column not present in all structured data"]
    ELSE [status |-> "ok", ok |-> TRUE, reason |-> ""]

\* lines 163-197: the four difference steps; the discharge_energy step selects
\* the rows of step_type "charge"
CSSSteps(data, hp) ==
    LET c1 == hp.cycle_comp_num[2]
        c0 == hp.cycle_comp_num[1]
        Step(name, step_type, column) ==
            [name |-> name,
             later |-> Selection(data, c1, step_type, column),
             earlier |-> Selection(data, c0, step_type, column)]
    IN  <<Step("QcDiff", "charge", "charge_capacity"),
          Step("QdDiff", "discharge", "discharge_capacity"),
          Step("EcDiff", "charge", "charge_energy"),
          Step("EdDiff", "charge", "discharge_energy")>>

\* lines 150-209
CycleSummaryStats_create_features(data, columns, hp) ==
    IF ~(AllColumns \subseteq columns)
    THEN [status |-> "AttributeError", at |-> "column", before |-> <<>>, diffs |-> <<>>]
    ELSE LET r == RunDifferences(CSSSteps(data, hp), hp.statistics, 1)
         IN  [status |-> r.status, at |-> r.at, before |-> <<>>, diffs |-> r.diffs]

MaxRows == 4

\* the rows of the model runs, by step type and float values:
\* charge_capacity and charge_energy hold the first value, discharge_capacity
\* and discharge_energy the second
RowKinds ==
    {<<"charge", Num(1), Num(2)>>, <<"charge", NaN, Num(3)>>,
     <<"charge", Inf, NaN>>, <<"discharge", Num(1), Num(2)>>}

StructuredRow(c, st, v) ==
    [cycle_index |-> c, step_type |-> st,
     charge_capacity |-> v[1], discharge_capacity |-> v[2],
     charge_energy |-> v[1], discharge_energy |-> v[2]]

\* structured_data holds its cycles in the order of cycle_index: the first
\* rows are of cycle 10, the others of cycle 100
StructuredTables(longest) ==
    UNION {
      { [i \in 1..k |-> StructuredRow(IF i <= first THEN 10 ELSE 100,
                                      kind[i][1], <<kind[i][2], kind[i][3]>>)] :
          first \in 0..k, kind \in [1..k -> RowKinds] } :
      k \in 0..longest }

InitCSS ==
    /\ pc = "ready"
    /\ StatsIdle /\ ECIdle /\ TCIdle
    /\ extractor = "CycleSummaryStats"
    /\ hyperparameters = CSSHyper
    /\ structured_data \in StructuredTables(MaxRows)
    /\ sd_columns \in {AllColumns, AllColumns \ {"charge_energy"},
                       AllColumns \ {"cycle_index"}}
    /\ diagnostic_data = <<>>
    /\ diagnostic_summary = <<>>
    /\ paths = {}
    /\ valid = NotValidated
    /\ outcome = NoOutcome

CSSValidate ==
    /\ pc = "ready"
    /\ extractor = "CycleSummaryStats"
    /\ valid' = CycleSummaryStats_validate(structured_data, sd_columns, hyperparameters)
    /\ pc' = "validated"
    /\ UNCHANGED <<statsVars, ecVars, tcVars, extractor, hyperparameters,
                   structured_data, sd_columns, diagnostic_data,
                   diagnostic_summary, paths, outcome>>

CSSCreateFeatures ==
    /\ pc = "validated"
    /\ extractor = "CycleSummaryStats"
    /\ valid.status = "ok" /\ valid.ok
    /\ outcome' = CycleSummaryStats_create_features(structured_data, sd_columns,
                                                    hyperparameters)
    /\ pc' = "done"
    /\ UNCHANGED <<statsVars, ecVars, tcVars, extractor, hyperparameters,
                   structured_data, sd_columns, diagnostic_data,
                   diagnostic_summary, paths, valid>>

(***************************************************************************)
(* DiagnosticSummaryStats and the filtering of diagnostic_data that        *)
(* HPPCResistanceVoltageFeatures shares with it.  test_time is in units of *)
(* 10^5 s, so that the default test_time_filter_sec of 10^6 s is 10.       *)
(***************************************************************************)
DSSHyper ==
    [test_time_filter_sec |-> 10, cycle_index_filter |-> 6,
     diagnostic_cycle_type |-> "rpt_0.2C", diag_pos_list |-> <<0, 1>>,
     statistics |-> supported_stats]

HPPCHyper == [test_time_filter_sec |-> 10, cycle_index_filter |-> 6]

\* the values of a sequence in the order of their first appearance
RECURSIVE Unique(_)
Unique(s) ==
    IF s = <<>> THEN <<>>
    ELSE LET u == Unique(SubSeq(s, 1, Len(s) - 1))
         IN  IF InSeq(s[Len(s)], u) THEN u ELSE Append(u, s[Len(s)])

\* the rows of a table with the given cycle type
OfType(rows, cycle_type) ==
    LET Chosen(r) == r.cycle_type = cycle_type IN SelectSeq(rows, Chosen)

\* lines 45-48, 359-362: a row of a "final" diagnostic, late in the test with a
\* low cycle number; a null test_time compares False
final_diagnostic(r, hp) ==
    /\ FGt(r.test_time, Num(hp.test_time_filter_sec))
    /\ r.cycle_index < hp.cycle_index_filter

\* lines 50-52, 364-366: the group of row r has only null test_time values
all_null_group(rows, r) ==
    \A i \in 1..Len(rows) :
        (/\ rows[i].cycle_index = r.cycle_index
         /\ rows[i].step_index = r.step_index
         /\ rows[i].step_index_counter = r.step_index_counter)
        => IsNaN(rows[i].test_time)

\* the filtering without its groupby step
filter_diagnostic_data_mask_only(rows, hp) ==
    LET NotFinal(r) == ~final_diagnostic(r, hp) IN SelectSeq(rows, NotFinal)

\* lines 44-52, 358-366: the boolean mask, then the groupby filter
filter_diagnostic_data(rows, hp) ==
    LET NotFinal(r) == ~final_diagnostic(r, hp)
        kept == SelectSeq(rows, NotFinal)
        Timed(r) == ~all_null_group(kept, r)
    IN  SelectSeq(kept, Timed)

\* featurizer_helpers.check_diagnostic_validation: refuses a datapath without
\* a diagnostic summary
check_diagnostic_validation(summary) ==
    IF summary = <<>>
    THEN [status |-> "ok", ok |-> FALSE, reason |-> "Datapath has empty diagnostic summary"]
    ELSE [status |-> "ok", ok |-> TRUE, reason |-> ""]

\* featurizer_helpers.get_step_index: the step indexes of the charge and the
\* discharge of a diagnostic cycle
get_step_index(cycle_type, diag_pos) == [charge |-> 1, discharge |-> 2]

\* lines 22-40
HPPC_validate(summary) ==
    LET val == check_diagnostic_validation(summary)
    IN  IF ~val.ok THEN val
        ELSE IF \E i \in 1..Len(summary) : summary[i].cycle_type = "hppc"
        THEN [status |-> "ok", ok |-> TRUE, reason |-> ""]
        ELSE [status |-> "ok", ok |-> FALSE,
              reason |-> "HPPC conditions not met for this cycler run"]

\* lines 279-304
DiagnosticSummaryStats_validate(summary, hp) ==
    LET val == check_diagnostic_validation(summary)
        typed == OfType(summary, hp.diagnostic_cycle_type)
        nunique == Len(Unique([i \in 1..Len(typed) |-> typed[i].cycle_index]))
    IN  IF ~val.ok THEN val
        ELSE IF nunique >= Max({hp.diag_pos_list[k] : k \in 1..2}) + 1
        THEN [status |-> "ok", ok |-> TRUE, reason |-> ""]
        ELSE [status |-> "ok", ok |-> FALSE,
              reason |-> "Diagnostic cycles insufficient for featurization"]

summary_cycle_types == <<"rpt_0.2C", "rpt_1C", "rpt_2C">>

\* lines 327-341, as far as it raises: iloc[pos] on the summary rows of each of
\* the three cycle types
get_summary_diff(summary, pos) ==
    IF \E t \in 1..Len(summary_cycle_types) : \E k \in 1..2 :
           pos[k] + 1 > Len(OfType(summary, summary_cycle_types[t]))
    THEN [status |-> "IndexError", at |-> "get_summary_diff"]
    ELSE [status |-> "ok", at |-> ""]

\* the values of a column in the rows of a cycle and a step
StepSelection(rows, cycle, step, column) ==
    LET Chosen(r) == r.cycle_index = cycle /\ r.step_index = step
        kept == SelectSeq(rows, Chosen)
    IN  [i \in 1..Len(kept) |-> kept[i][column]]

\* lines 411-457: the six difference steps on the masks of lines 390-409
DSSSteps(diag_intrp, cycles, hp) ==
    LET pos == hp.diag_pos_list
        step_dict_0 == get_step_index(hp.diagnostic_cycle_type, pos[1])
        step_dict_1 == get_step_index(hp.diagnostic_cycle_type, pos[2])
        Step(name, kind, column) ==
            [name |-> name,
             later |-> StepSelection(diag_intrp, cycles[pos[2] + 1],
                                     step_dict_1[kind], column),
             earlier |-> StepSelection(diag_intrp, cycles[pos[1] + 1],
                                       step_dict_0[kind], column)]
    IN  <<Step("QcDiff", "charge", "charge_capacity"),
          Step("QdDiff", "discharge", "discharge_capacity"),
          Step("EcDiff", "charge", "charge_energy"),
          Step("EdDiff", "discharge", "discharge_energy"),
          Step("dQdVcDiff", "charge", "charge_dQdV"),
          Step("dQdVdDiff", "discharge", "discharge_dQdV")>>

\* the features taken from the table as it was before the filtering
DiagnosticSummaryStats_create_features_unfiltered(original, diag_intrp, summary, hp) ==
    LET typed == OfType(original, hp.diagnostic_cycle_type)
        cycles == Unique([i \in 1..Len(typed) |-> typed[i].cycle_index])
    IN  IF \E k \in 1..2 : hp.diag_pos_list[k] + 1 > Len(cycles)
        THEN [status |-> "IndexError", at |-> "cycles", before |-> original,
              diffs |-> <<>>]
        ELSE LET r == RunDifferences(DSSSteps(original, cycles, hp),
                                     hp.statistics, 1)
             IN  [status |-> r.status, at |-> r.at, before |-> original,
                  diffs |-> r.diffs]

\* lines 368-474 on the filtered diagnostic_data
DiagnosticSummaryStats_create_features(original, diag_intrp, summary, hp) ==
    LET typed == OfType(diag_intrp, hp.diagnostic_cycle_type)
        cycles == Unique([i \in 1..Len(typed) |-> typed[i].cycle_index])
    IN  IF \E k \in 1..2 : hp.diag_pos_list[k] + 1 > Len(cycles)
        THEN [status |-> "IndexError", at |-> "cycles", before |-> original,
              diffs |-> <<>>]
        ELSE LET r == RunDifferences(DSSSteps(diag_intrp, cycles, hp),
                                     hp.statistics, 1)
                 d == get_summary_diff(summary, hp.diag_pos_list)
             IN  IF r.status # "ok"
                 THEN [status |-> r.status, at |-> r.at, before |-> original,
                       diffs |-> r.diffs]
                 ELSE [status |-> d.status, at |-> d.at, before |-> original,
                       diffs |-> r.diffs]

MaxRounds == 2

\* A test runs its diagnostics in rounds, each with one cycle of every
\* diagnostic type that is still run.  A round is "early" (low cycle numbers,
\* test_time below the filter), "late" (high cycle numbers, test_time above)
\* or "final" (appended with low cycle numbers and test_time above).
Placements == {"early", "late", "final"}

\* the charge step of the first cycle of a round: one row, two rows, or one
\* row whose test_time is null
ChargeSteps == {"one", "two", "null"}

\* the rounds of the model runs
Rounds ==
    {r \in [place : Placements, charge : ChargeSteps] :
        r.place = "early" \/ r.charge = "one"}

ValuePatterns == {"finite", "nan", "inf"}

RoundCycleIndex(r, j, place) ==
    IF place = "late" THEN 100 * r + j ELSE 3 * (r - 1) + j

RoundTestTime(place) == IF place = "early" THEN Num(5) ELSE Num(20)

ChargeValue(r, n, pattern) ==
    IF pattern = "inf" /\ r = 1 /\ n = 1 THEN Inf
    ELSE IF pattern = "nan" /\ r = 2 /\ n = 1 THEN NaN
    ELSE Num(r + n)

DiagRow(c, type, step, t, v, w) ==
    [cycle_index |-> c, cycle_type |-> type, step_index |-> step,
     step_index_counter |-> step, test_time |-> t,
     charge_capacity |-> v, charge_energy |-> v, charge_dQdV |-> v,
     discharge_capacity |-> w, discharge_energy |-> w, discharge_dQdV |-> w]

\* the rows of round r: the charge and discharge steps of the cycle of the
\* first type, and the discharge step of the cycles of the other types
RoundRows(r, round, counts, types, pattern) ==
    LET t == RoundTestTime(round.place)
        Idx(j) == RoundCycleIndex(r, j, round.place)
        charge ==
            IF round.charge = "null"
            THEN <<DiagRow(Idx(0), types[1], 1, NaN, ChargeValue(r, 1, pattern), NaN)>>
            ELSE [n \in 1..(IF round.charge = "two" THEN 2 ELSE 1) |->
                    DiagRow(Idx(0), types[1], 1, t, ChargeValue(r, n, pattern), NaN)]
        Discharge(j) ==
            IF r <= counts[j + 1]
            THEN <<DiagRow(Idx(j), types[j + 1], 2, t, NaN, Num(2 * r + j))>>
            ELSE <<>>
    IN  (IF r <= counts[1] THEN charge ELSE <<>>)
            \o Discharge(0) \o Discharge(1) \o Discharge(2)

RECURSIVE DiagnosticRows(_, _, _, _, _)
DiagnosticRows(r, rounds, counts, types, pattern) ==
    IF r > Len(rounds) THEN <<>>
    ELSE RoundRows(r, rounds[r], counts, types, pattern)
            \o DiagnosticRows(r + 1, rounds, counts, types, pattern)

\* diagnostic_summary holds one row for every diagnostic cycle of the test
DiagnosticSummary(data) ==
    LET cycles == Unique([i \in 1..Len(data) |-> data[i].cycle_index])
        Row(c) == LET i == Min({k \in 1..Len(data) : data[k].cycle_index = c})
                  IN  [cycle_index |-> c, cycle_type |-> data[i].cycle_type]
    IN  [k \in 1..Len(cycles) |-> Row(cycles[k])]

DiagnosticTables(types, patterns) ==
    UNION {
      { DiagnosticRows(1, rounds, counts, types, pattern) :
          rounds \in [1..Max({counts[j] : j \in 1..3}) -> Rounds],
          pattern \in patterns } :
      counts \in [1..3 -> 0..MaxRounds] }

hppc_cycle_types == <<"hppc", "rpt_1C", "rpt_2C">>

InitDSS ==
    /\ pc = "ready"
    /\ StatsIdle /\ ECIdle /\ TCIdle
    /\ extractor = "DiagnosticSummaryStats"
    /\ hyperparameters = DSSHyper
    /\ structured_data = <<>>
    /\ sd_columns = {}
    /\ diagnostic_data \in DiagnosticTables(summary_cycle_types, ValuePatterns)
    /\ diagnostic_summary = DiagnosticSummary(diagnostic_data)
    /\ paths = {}
    /\ valid = NotValidated
    /\ outcome = NoOutcome

InitHPPC ==
    /\ pc = "ready"
    /\ StatsIdle /\ ECIdle /\ TCIdle
    /\ extractor = "HPPCResistanceVoltageFeatures"
    /\ hyperparameters = HPPCHyper
    /\ structured_data = <<>>
    /\ sd_columns = {}
    /\ diagnostic_data \in DiagnosticTables(hppc_cycle_types, {"finite"})
    /\ diagnostic_summary = DiagnosticSummary(diagnostic_data)
    /\ paths = {}
    /\ valid = NotValidated
    /\ outcome = NoOutcome

DSSValidate ==
    /\ pc = "ready"
    /\ extractor = "DiagnosticSummaryStats"
    /\ valid' = DiagnosticSummaryStats_validate(diagnostic_summary, hyperparameters)
    /\ pc' = "validated"
    /\ UNCHANGED <<statsVars, ecVars, tcVars, extractor, hyperparameters,
                   structured_data, sd_columns, diagnostic_data,
                   diagnostic_summary, paths, outcome>>

\* lines 343-474: the filtered table is assigned to the datapath before
\* anything else, so it stays when a later line raises
DSSCreateFeatures ==
    /\ pc = "validated"
    /\ extractor = "DiagnosticSummaryStats"
    /\ valid.status = "ok" /\ valid.ok
    /\ diagnostic_data' = filter_diagnostic_data(diagnostic_data, hyperparameters)
    /\ outcome' = DiagnosticSummaryStats_create_features(
                      diagnostic_data, diagnostic_data', diagnostic_summary,
                      hyperparameters)
    /\ pc' = "done"
    /\ UNCHANGED <<statsVars, ecVars, tcVars, extractor, hyperparameters,
                   structured_data, sd_columns, diagnostic_summary, paths, valid>>

HPPCValidate ==
    /\ pc = "ready"
    /\ extractor = "HPPCResistanceVoltageFeatures"
    /\ valid' = HPPC_validate(diagnostic_summary)
    /\ pc' = "validated"
    /\ UNCHANGED <<statsVars, ecVars, tcVars, extractor, hyperparameters,
                   structured_data, sd_columns, diagnostic_data,
                   diagnostic_summary, paths, outcome>>

\* lines 42-88: the filtering; the features themselves come from helpers of
\* featurizer_helpers and are not kept
HPPCCreateFeatures ==
    /\ pc = "validated"
    /\ extractor = "HPPCResistanceVoltageFeatures"
    /\ valid.status = "ok" /\ valid.ok
    /\ diagnostic_data' = filter_diagnostic_data(diagnostic_data, hyperparameters)
    /\ outcome' = [status |-> "ok", at |-> "", before |-> diagnostic_data,
                   diffs |-> <<>>]
    /\ pc' = "done"
    /\ UNCHANGED <<statsVars, ecVars, tcVars, extractor, hyperparameters,
                   structured_data, sd_columns, diagnostic_summary, paths, valid>>

\* create_features called a second time on the same datapath; before keeps
\* the table that the first call was given
DSSCreateFeaturesAgain ==
    /\ pc = "done"
    /\ extractor = "DiagnosticSummaryStats"
    /\ diagnostic_data' = filter_diagnostic_data(diagnostic_data, hyperparameters)
    /\ outcome' = [DiagnosticSummaryStats_create_features(
                       diagnostic_data, diagnostic_data', diagnostic_summary,
                       hyperparameters)
                   EXCEPT !.before = outcome.before]
    /\ pc' = "repeated"
    /\ UNCHANGED <<statsVars, ecVars, tcVars, extractor, hyperparameters,
                   structured_data, sd_columns, diagnostic_summary, paths, valid>>

HPPCCreateFeaturesAgain ==
    /\ pc = "done"
    /\ extractor = "HPPCResistanceVoltageFeatures"
    /\ diagnostic_data' = filter_diagnostic_data(diagnostic_data, hyperparameters)
    /\ outcome' = [status |-> "ok", at |-> "", before |-> outcome.before,
                   diffs |-> <<>>]
    /\ pc' = "repeated"
    /\ UNCHANGED <<statsVars, ecVars, tcVars, extractor, hyperparameters,
                   structured_data, sd_columns, diagnostic_summary, paths, valid>>

InitRepeated == InitDSS \/ InitHPPC

NextRepeated ==
    \/ DSSValidate
    \/ DSSCreateFeatures
    \/ DSSCreateFeaturesAgain
    \/ HPPCValidate
    \/ HPPCCreateFeatures
    \/ HPPCCreateFeaturesAgain

SpecRepeated == InitRepeated /\ [][NextRepeated]_vars

InitSummaryStats == InitCSS \/ InitDSS \/ InitHPPC

NextSummaryStats ==
    \/ CSSValidate
    \/ CSSCreateFeatures
    \/ DSSValidate
    \/ DSSCreateFeatures
    \/ HPPCValidate
    \/ HPPCCreateFeatures

SpecSummaryStats == InitSummaryStats /\ [][NextSummaryStats]_vars

(***************************************************************************)
(* DeltaQFastCharge.  structured_summary holds one row per cycle, row i at *)
(* position i - 1; discharge_capacity is in whole mAh.  Of the features    *)
(* the model keeps those read from the summary by position and those of    *)
(* Qd_diff; the temperature features and the linear fits are not kept.     *)
(***************************************************************************)
DeltaQDefaults ==
    [init_pred_cycle |-> 10, mid_pred_cycle |-> 91, final_pred_cycle |-> 100,
     n_nominal_cycles |-> 40]

\* lines 508-521; the index of the summary is its cycle_index
DeltaQFastCharge_validate(summary, summary_columns, columns, hp) ==
    LET index == {summary[i].cycle_index : i \in 1..Len(summary)}
        No(reason) == [status |-> "ok", ok |-> FALSE, reason |-> reason]
    IN  IF index = {} \/ ~(Max(index) > hp.final_pred_cycle)
        THEN No("Structured summary index max is less than final pred cycle")
        ELSE IF ~(Min(index) <= hp.init_pred_cycle)
        THEN No("Structured summary index min is more than initial pred cycle")
        ELSE IF "cycle_index" \notin summary_columns
        THEN No("Structured summary missing critical data: 'cycle_index'")
        ELSE IF "cycle_index" \notin columns
        THEN No("Structured data missing critical data: 'cycle_index'")
        ELSE IF ~(hp.mid_pred_cycle > 10)
        THEN No("Middle pred. cycle less than threshold value of 10")
        ELSE IF ~(hp.final_pred_cycle > hp.mid_pred_cycle)
        THEN No("Final pred cycle less than middle pred cycle")
        ELSE [status |-> "ok", ok |-> TRUE, reason |-> ""]

\* lines 541-543
hyperparameters_after_create(hp) == [hp EXCEPT !.n_nominal_cycles = 40]

\* IR_trend as a view of the summary: its zeros become nan in the summary too
summary_after_IR_trend_view(summary, i_final) ==
    [i \in 1..Len(summary) |->
        IF i >= 2 /\ i <= i_final + 1 /\ summary[i].dc_internal_resistance = Num(0)
        THEN [summary[i] EXCEPT !.dc_internal_resistance = NaN]
        ELSE summary[i]]

\* lines 633-636: IR_trend is selected with iloc on a list of positions, which
\* copies the rows, so that setting its zeros to nan leaves the summary alone
summary_after_IR_trend(summary, i_final) == summary

\* the k-th smallest of a sequence of integers
KthSmallest(s, k) ==
    CHOOSE v \in {s[i] : i \in 1..Len(s)} :
        /\ Cardinality({i \in 1..Len(s) : s[i] < v}) < k
        /\ Cardinality({i \in 1..Len(s) : s[i] <= v}) >= k

\* np.median
Median(s) ==
    IF s = <<>> THEN NaN
    ELSE IF Len(s) % 2 = 1 THEN Num(KthSmallest(s, (Len(s) + 1) \div 2))
    ELSE Frac(KthSmallest(s, Len(s) \div 2) + KthSmallest(s, Len(s) \div 2 + 1), 2)

\* np.nanmin of the internal resistances with their zeros set to nan
IRMin(trend) ==
    LET finite == {trend[i] : i \in 1..Len(trend)} \ {Num(0), NaN}
    IN  IF finite = {} THEN NaN
        ELSE CHOOSE v \in finite : \A w \in finite : ~FLt(w, v)

\* lines 588-596: the columns 5 to 10 of X, the features of Qd_diff.  X is
\* np.zeros((1, 20)), and `X[5:11] = np.nan` with a slice as the key assigns
\* to the rows 5 to 10 of X, of which the one-row table has none.
discharge_capacity_difference_features(Qd_diff) ==
    LET a == [i \in 1..Len(Qd_diff) |-> Qd_diff[i][1]]
        s2 == PowerSum(a, 2)
        s4 == PowerSum(a, 4)
    IN  IF Len(Qd_diff) > 0
        THEN <<StatMin(a), StatMean(a), StatVar(a), StatSkew(a),
               Log10(Frac(Len(a) * s4 - 3 * s2 * s2, s2 * s2)),
               Log10(Frac(a[1], 1))>>
        ELSE [i \in 1..6 |-> Num(0)]

NoDeltaQ ==
    [discharge_capacity_cycle_2 |-> 0, max_discharge_capacity_difference |-> 0,
     discharge_capacity_cycle_100 |-> 0, Qd_diff |-> 0,
     discharge_capacity_difference |-> <<>>,
     min_internal_resistance |-> NaN, internal_resistance_cycle_2 |-> NaN,
     internal_resistance_difference |-> NaN, nominal_capacity_by_median |-> NaN]

\* lines 536-659: data is structured_data, hp the hyperparameters after lines
\* 541-543, summary_after the summary after lines 633-636
DeltaQFastCharge_create_features(summary, summary_after, data, columns, hp) ==
    LET i_final == hp.final_pred_cycle - 1
        cap == [i \in 1..Len(summary) |-> summary[i].discharge_capacity]
        IR == [i \in 1..Len(summary) |-> summary_after[i].dc_internal_resistance]
        IsDischarge(r) == r.step_type = "discharge"
        interpolated_df == IF "step_type" \in columns
                           THEN SelectSeq(data, IsDischarge) ELSE data
        Qd_final == Selection(interpolated_df, i_final, "", "discharge_capacity")
        Qd_10 == Selection(interpolated_df, 9, "", "discharge_capacity")
        end == hp.n_nominal_cycles
        Failed(status, at) == [status |-> status, at |-> at, features |-> NoDeltaQ]
    IN  IF Len(summary) < i_final + 1
        THEN Failed("IndexError", "iloc")
        ELSE IF ~Broadcastable(Qd_final, Qd_10)
        THEN Failed("ValueError", "Qd_diff")
        ELSE [status |-> "ok", at |-> "",
              features |->
                [discharge_capacity_cycle_2 |-> cap[2],
                 max_discharge_capacity_difference |->
                     Max({cap[i] : i \in 1..(i_final + 1)}) - cap[2],
                 discharge_capacity_cycle_100 |-> cap[i_final + 1],
                 Qd_diff |-> Len(Subtract(Qd_final, Qd_10)),
                 discharge_capacity_difference |->
                     discharge_capacity_difference_features(
                         Subtract(Qd_final, Qd_10)),
                 min_internal_resistance |->
                     IRMin(SubSeq([i \in 1..Len(summary) |->
                               summary[i].dc_internal_resistance], 2, i_final + 1)),
                 internal_resistance_cycle_2 |-> IR[2],
                 internal_resistance_difference |-> FSub(IR[i_final + 1], IR[2]),
                 nominal_capacity_by_median |->
                     Median(SubSeq(cap, 1, Min({end, Len(cap)})))]]

MaxCycles == 14

\* the hyperparameters of the model runs: the defaults, and overrides with the
\* prediction cycles 10, 11, 12 that a short summary can satisfy
DeltaQHypers ==
    {DeltaQDefaults} \cup
    {[init_pred_cycle |-> 10, mid_pred_cycle |-> 11, final_pred_cycle |-> 12,
      n_nominal_cycles |-> n] : n \in {3, 40}}

SummaryColumns == {"cycle_index", "discharge_capacity", "dc_internal_resistance"}

CapacityFades == {0, 10}
ResistanceProfiles == {"positive", "zero at cycle 2", "zero at cycle 3"}

DeltaQSummaryRow(i, first, fade, profile) ==
    [cycle_index |-> first + i - 1,
     discharge_capacity |-> 1000 - fade * (i - 1),
     dc_internal_resistance |->
        IF (profile = "zero at cycle 2" /\ i = 2) \/ (profile = "zero at cycle 3" /\ i = 3)
        THEN Num(0) ELSE Num(20 + i)]

DeltaQSummaries ==
    { [i \in 1..n |-> DeltaQSummaryRow(i, first, fade, profile)] :
        n \in (MaxCycles - 1)..MaxCycles, first \in {0, 5},
        fade \in CapacityFades, profile \in ResistanceProfiles }

\* the discharge rows of structured_data at cycle 9 and at the final cycle 11
DeltaQTables ==
    { [i \in 1..(a + b) |->
          StructuredRow(IF i <= a THEN 9 ELSE 11, "discharge", <<NaN, Num(i)>>)] :
        a \in 0..2, b \in 0..2 }

InitDeltaQ ==
    /\ pc = "ready"
    /\ StatsIdle /\ TCIdle
    /\ extractor = "DeltaQFastCharge"
    /\ hyperparameters \in DeltaQHypers
    /\ structured_summary \in DeltaQSummaries
    /\ structured_data \in DeltaQTables
    /\ sd_columns \in {AllColumns, AllColumns \ {"step_type"},
                       AllColumns \ {"cycle_index"}}
    /\ diag_fractional = <<>>
    /\ structuring_parameters = [has_nominal_capacity |-> FALSE, nominal_capacity |-> 0]
    /\ parameters = [charge_constant_current_1 |-> 0, charge_constant_current_2 |-> 0,
                     capacity_nominal |-> 1]
    /\ features = NoFeatures
    /\ inspected = <<>>
    /\ diagnostic_data = <<>>
    /\ diagnostic_summary = <<>>
    /\ paths = {}
    /\ valid = NotValidated
    /\ outcome = NoOutcome

DeltaQValidate ==
    /\ pc = "ready"
    /\ extractor = "DeltaQFastCharge"
    /\ valid' = DeltaQFastCharge_validate(structured_summary, SummaryColumns,
                                          sd_columns, hyperparameters)
    /\ pc' = "validated"
    /\ UNCHANGED <<statsVars, ecVars, tcVars, extractor, hyperparameters,
                   structured_data, sd_columns, diagnostic_data,
                   diagnostic_summary, paths, outcome>>

\* lines 523-659; outcome.before keeps the hyperparameters of the call
DeltaQCreateFeatures ==
    /\ pc = "validated"
    /\ extractor = "DeltaQFastCharge"
    /\ valid.status = "ok" /\ valid.ok
    /\ hyperparameters' = hyperparameters_after_create(hyperparameters)
    /\ structured_summary' =
           summary_after_IR_trend(structured_summary,
                                  hyperparameters.final_pred_cycle - 1)
    /\ LET r == DeltaQFastCharge_create_features(
                    structured_summary, structured_summary', structured_data,
                    sd_columns, hyperparameters')
       IN  /\ features' = r.features
           /\ outcome' = [status |-> r.status, at |-> r.at,
                          before |-> hyperparameters, diffs |-> <<>>]
    /\ pc' = "done"
    /\ UNCHANGED <<statsVars, tcVars, diag_fractional, structuring_parameters,
                   parameters, inspected, extractor, structured_data, sd_columns,
                   diagnostic_data, diagnostic_summary, paths, valid>>

NextDeltaQ ==
    \/ DeltaQValidate
    \/ DeltaQCreateFeatures

SpecDeltaQ == InitDeltaQ /\ [][NextDeltaQ]_vars

(***************************************************************************)
(* RawInterpolatedData, the validate of ExclusionCriteria, and the         *)
(* featurizers together on one datapath each.                              *)
(***************************************************************************)
RawHyper ==
    [metrics |-> <<"capacity", "dQdV", "test_time">>,
     cycle_types |-> summary_cycle_types, diag_positions |-> <<0, 1>>,
     impute |-> TRUE]

\* lines 1124-1165 for the cycle types from t on, as far as the indexing of
\* the cycles and steps decides it: the number of channels, or IndexError
RECURSIVE RawChannels(_, _, _)
RawChannels(data, hp, t) ==
    IF t > Len(hp.cycle_types) THEN [status |-> "ok", channels |-> 0]
    ELSE
    LET df_sub == OfType(data, hp.cycle_types[t])
        cycle_indices == Unique([i \in 1..Len(df_sub) |-> df_sub[i].cycle_index])
        Steps(c) == {df_sub[i].step_index :
                        i \in {k \in 1..Len(df_sub) : df_sub[k].cycle_index = c}}
        rest == RawChannels(data, hp, t + 1)
    IN  IF cycle_indices = <<>> THEN [status |-> "IndexError", channels |-> 0]
        ELSE IF Cardinality(Steps(cycle_indices[1])) # 2 THEN rest
        ELSE IF \E k \in 1..Len(hp.diag_positions) :
                   \/ hp.diag_positions[k] + 1 > Len(cycle_indices)
                   \/ Cardinality(Steps(cycle_indices[hp.diag_positions[k] + 1])) < 2
        THEN [status |-> "IndexError", channels |-> 0]
        ELSE [rest EXCEPT !.channels =
                 @ + Len(hp.metrics) * 2 * Len(hp.diag_positions)]

\* lines 1113-1171: df is read only; the series that are imputed in place are
\* new ones
RawInterpolatedData_create_features(data, hp) ==
    LET r == RawChannels(data, hp, 1)
    IN  [status |-> r.status, at |-> IF r.status = "ok" THEN "" ELSE "cycle_indices",
         before |-> <<>>, diffs |-> <<>>]

\* lines 946-964; paths is the set of the keys of datapath.paths
ExclusionCriteria_validate(keys, summary) ==
    IF ~("raw" \in keys \/ "structured" \in keys)
    THEN [status |-> "ok", ok |-> FALSE,
          reason |-> "datapath paths not set, unable to fetch charging protocol"]
    ELSE check_diagnostic_validation(summary)

InitRaw ==
    /\ pc = "ready"
    /\ StatsIdle /\ ECIdle /\ TCIdle
    /\ extractor = "RawInterpolatedData"
    /\ hyperparameters = RawHyper
    /\ structured_data = <<>>
    /\ sd_columns = {}
    /\ diagnostic_data \in DiagnosticTables(summary_cycle_types, {"finite"})
    /\ diagnostic_summary = DiagnosticSummary(diagnostic_data)
    /\ paths = {}
    /\ valid = NotValidated
    /\ outcome = NoOutcome

InitExclusion ==
    /\ pc = "ready"
    /\ StatsIdle /\ TCIdle
    /\ extractor = "ExclusionCriteria"
    /\ hyperparameters = ECHyper
    /\ structured_summary \in Summaries
    /\ diag_fractional \in Diagnostics
    /\ structuring_parameters = [has_nominal_capacity |-> TRUE, nominal_capacity |-> 2]
    /\ parameters = [charge_constant_current_1 |-> 1, charge_constant_current_2 |-> 2,
                     capacity_nominal |-> 1]
    /\ features = NoFeatures
    /\ inspected = <<>>
    /\ structured_data = <<>>
    /\ sd_columns = {}
    /\ diagnostic_data = <<>>
    /\ diagnostic_summary \in
          {<<>>, [i \in 1..Len(diag_fractional) |->
                     [cycle_index |-> diag_fractional[i].cycle_index,
                      cycle_type |-> "rpt_0.2C"]]}
    /\ paths \in {{}, {"raw"}, {"structured"}}
    /\ valid = NotValidated
    /\ outcome = NoOutcome

RawValidate ==
    /\ pc = "ready"
    /\ extractor = "RawInterpolatedData"
    /\ valid' = check_diagnostic_validation(diagnostic_summary)
    /\ pc' = "validated"
    /\ UNCHANGED <<statsVars, ecVars, tcVars, extractor, hyperparameters,
                   structured_data, sd_columns, diagnostic_data,
                   diagnostic_summary, paths, outcome>>

RawCreateFeatures ==
    /\ pc = "validated"
    /\ extractor = "RawInterpolatedData"
    /\ valid.status = "ok" /\ valid.ok
    /\ outcome' = RawInterpolatedData_create_features(diagnostic_data, hyperparameters)
    /\ pc' = "done"
    /\ UNCHANGED <<statsVars, ecVars, tcVars, extractor, hyperparameters,
                   structured_data, sd_columns, diagnostic_data,
                   diagnostic_summary, paths, valid>>

ExclusionValidate ==
    /\ pc = "ready"
    /\ extractor = "ExclusionCriteria"
    /\ valid' = ExclusionCriteria_validate(paths, diagnostic_summary)
    /\ pc' = "validated"
    /\ UNCHANGED <<statsVars, ecVars, tcVars, extractor, hyperparameters,
                   structured_data, sd_columns, diagnostic_data,
                   diagnostic_summary, paths, outcome>>

\* lines 965-1073, called once validate has returned True
ExclusionCreateFeatures ==
    /\ pc = "validated"
    /\ extractor = "ExclusionCriteria"
    /\ valid.status = "ok" /\ valid.ok
    /\ LET r == ExclusionCriteria_create_features(
                    structured_summary, diag_fractional, structuring_parameters,
                    parameters, hyperparameters)
       IN  /\ features' = r.features
           /\ inspected' = r.inspected
           /\ outcome' = [status |-> r.features.status, at |-> "",
                          before |-> <<>>, diffs |-> <<>>]
    /\ pc' = "done"
    /\ UNCHANGED <<statsVars, tcVars, structured_summary, diag_fractional,
                   structuring_parameters, parameters, extractor, hyperparameters,
                   structured_data, sd_columns, diagnostic_data,
                   diagnostic_summary, paths, valid>>

InitFeaturizers ==
    InitCSS \/ InitDSS \/ InitHPPC \/ InitDeltaQ \/ InitRaw \/ InitExclusion

NextFeaturizers ==
    \/ CSSValidate
    \/ CSSCreateFeatures
    \/ DSSValidate
    \/ DSSCreateFeatures
    \/ HPPCValidate
    \/ HPPCCreateFeatures
    \/ DeltaQValidate
    \/ DeltaQCreateFeatures
    \/ RawValidate
    \/ RawCreateFeatures
    \/ ExclusionValidate
    \/ ExclusionCreateFeatures

SpecFeaturizers == InitFeaturizers /\ [][NextFeaturizers]_vars

(***************************************************************************)
(* DiagnosticProperties.create_features: the frames that                   *)
(* get_fractional_quantity_remaining_nx returns for each quantity and each *)
(* cycle type of diagnostic_summary are appended to one table, which is    *)
(* handed to get_threshold_targets.  The quantities lists of the runs hold *)
(* one quantity and the diagnostic cycles of a test have different         *)
(* cycle_index, throughput and n, so that no two rows of the table share   *)
(* an x value.                                                             *)
(***************************************************************************)
MaxDiagRounds == 2

DiagnosticProperties_defaults(extrapolate) ==
    [quantities |-> <<"discharge_energy">>, threshold |-> 16,
     metric |-> "discharge_energy", filter_kinks |-> 0,
     interpolation_axes |-> <<"normalized_regular_throughput", "cycle_index">>,
     cycle_type |-> "rpt_1C", extrapolate_threshold |-> extrapolate]

\* the cycle types of the diagnostic cycles of one round, in their order
CycleTypeOrders == {<<"rpt_1C">>, <<"rpt_0.2C", "rpt_1C">>, <<"rpt_1C", "rpt_2C">>}

\* diagnostic_summary of a test of the given rounds
RoundsSummary(types, rounds) ==
    [pos \in 1..(rounds * Len(types)) |->
        [cycle_index |-> XCycleIndex(pos),
         cycle_type |-> types[((pos - 1) % Len(types)) + 1]]]

\* the frames of the helper: for the t-th cycle type one row per round, the
\* metric of the first round being 1
HelperFrames(types, rounds) ==
    { [key \in {<<"discharge_energy", types[t]>> : t \in 1..Len(types)} |->
          LET t == CHOOSE t \in 1..Len(types) : types[t] = key[2]
          IN  [r \in 1..rounds |->
                  DfRow((r - 1) * Len(types) + t,
                        IF r = 1 THEN YScale ELSE y[<<t, r>>])]] :
        y \in [(1..Len(types)) \X (2..rounds) -> MetricValues] }

\* lines 791-801: the frames in the order of the two loops, each row with
\* the cycle_type and the metric of its frame
RECURSIVE AppendFrames(_, _, _, _)
AppendFrames(frames, quantities, cycle_types, k) ==
    IF k > Len(quantities) * Len(cycle_types) THEN <<>>
    ELSE LET quantity == quantities[((k - 1) \div Len(cycle_types)) + 1]
             cycle_type == cycle_types[((k - 1) % Len(cycle_types)) + 1]
             frame == frames[<<quantity, cycle_type>>]
         IN  [i \in 1..Len(frame) |->
                 [cycle_type |-> cycle_type, metric |-> quantity] @@ frame[i]]
             \o AppendFrames(frames, quantities, cycle_types, k + 1)

\* lines 788-804
DiagnosticProperties_create_features(summary, frames, hp) ==
    LET cycle_types == Unique([i \in 1..Len(summary) |-> summary[i].cycle_type])
        X == AppendFrames(frames, hp.quantities, cycle_types, 1)
    IN  [X |-> X, X_condensed |-> get_threshold_targets(X, hp)]

InitDiagnosticProperties ==
    /\ pc = "ready"
    /\ StatsIdle
    /\ extractor = "DiagnosticProperties"
    /\ hyperparameters = <<>>
    /\ structured_data = <<>>
    /\ sd_columns = {}
    /\ diagnostic_data = <<>>
    /\ \E types \in CycleTypeOrders, rounds \in 2..MaxDiagRounds :
          /\ diagnostic_summary = RoundsSummary(types, rounds)
          /\ diag_fractional \in HelperFrames(types, rounds)
    /\ paths = {}
    /\ valid = NotValidated
    /\ outcome = NoOutcome
    /\ structured_summary = <<>>
    /\ structuring_parameters = [has_nominal_capacity |-> FALSE, nominal_capacity |-> 0]
    /\ parameters = [charge_constant_current_1 |-> 0, charge_constant_current_2 |-> 0,
                     capacity_nominal |-> 1]
    /\ features = NoFeatures
    /\ inspected = <<>>
    /\ df = <<>>
    /\ tc_hyper \in {DiagnosticProperties_defaults(e) : e \in BOOLEAN}
    /\ tc_out = NoTargets

\* line 772
DiagnosticPropertiesValidate ==
    /\ pc = "ready"
    /\ extractor = "DiagnosticProperties"
    /\ valid' = check_diagnostic_validation(diagnostic_summary)
    /\ pc' = "validated"
    /\ UNCHANGED <<statsVars, ecVars, tcVars, extractor, hyperparameters,
                   structured_data, sd_columns, diagnostic_data,
                   diagnostic_summary, paths, outcome>>

DiagnosticPropertiesCreateFeatures ==
    /\ pc = "validated"
    /\ extractor = "DiagnosticProperties"
    /\ valid.status = "ok" /\ valid.ok
    /\ LET r == DiagnosticProperties_create_features(
                    diagnostic_summary, diag_fractional, tc_hyper)
       IN  /\ df' = r.X
           /\ tc_out' = r.X_condensed
    /\ pc' = "done"
    /\ UNCHANGED <<statsVars, ecVars, dpVars, tc_hyper>>

NextDiagnosticProperties ==
    \/ DiagnosticPropertiesValidate
    \/ DiagnosticPropertiesCreateFeatures

SpecDiagnosticProperties ==
    InitDiagnosticProperties /\ [][NextDiagnosticProperties]_vars

(***************************************************************************)
(* Properties of the statistical summary                                   *)
(***************************************************************************)
AllSupported(names) == \A i \in 1..Len(names) : InSeq(names[i], supported_stats)

\* C2: for every list of supported names, get_summary_statistics returns one
\* value per listed name, the i-th value being the statistic the i-th name
\* stands for.
C2_OneValuePerNameInOrder ==
    (pc = "done" /\ AllSupported(statistics) /\ stats_out.status = "ok") =>
        /\ Len(stats_out.stats) = Len(statistics)
        /\ \A i \in 1..Len(statistics) :
              stats_out.stats[i] = Statistic(statistics[i], array)

\* C3: a name outside the supported set makes get_summary_statistics raise
\* the unsupported-statistics error, with no vector, before anything is
\* computed: whatever the array and the other names are.
C3_UnsupportedNameFails ==
    (pc = "done" /\ ~AllSupported(statistics)) =>
        /\ stats_out.status = "ValueError"
        /\ stats_out.msg = "Unsupported statistics"
        /\ stats_out.stats = <<>>

\* the unsupported name comes after a supported one whose computation would
\* itself raise on the empty array
C3_Witness ==
    /\ pc = "done"
    /\ statistics = <<"min", "median">>
    /\ array = <<>>
    /\ stats_out.msg = "Unsupported statistics"

(***************************************************************************)
(* Properties of the exclusion criteria                                    *)
(***************************************************************************)
RuleFlags ==
    <<features.is_above_first_n_cycles_throughput,
      features.is_below_fractional_capacity_at_EOT,
      features.is_above_equivalent_full_cycles_at_EOL,
      features.is_not_early_CV>>

CC1 == parameters.charge_constant_current_1
CC2 == parameters.charge_constant_current_2

\* C10 as stated: the early-CV loop runs over the cycles only when CC1 is
\* lower than CC2; in every other case is_not_early_CV is true and no cycle
\* is inspected.
C10_LoopOnlyWhenCC1Lower ==
    (pc = "done" /\ features.status = "ok" /\ ~(CC1 < CC2)) =>
        (features.is_not_early_CV = "True" /\ inspected = <<>>)

\* the regular cycles at or before the cutoff cycle of the run
CutoffCycle ==
    cutoff_cycle_index(diag_fractional,
                       features.is_below_fractional_capacity_at_EOT = "True",
                       ECHyper.EOL_conditions.threshold)
HasCycleBeforeCutoff ==
    \E i \in 1..Len(structured_summary) :
        structured_summary[i].cycle_index <= CutoffCycle

\* C10, amended: the early-CV loop runs over the cycles only when CC1 is
\* higher than CC2, and then it inspects the first regular cycle at or before
\* the cutoff; when CC1 <= CC2 is_not_early_CV is true and no cycle is
\* inspected.
C10_LoopOnlyWhenCC1Higher ==
    (pc = "done" /\ features.status = "ok") =>
        /\ CC1 <= CC2 => (features.is_not_early_CV = "True" /\ inspected = <<>>)
        /\ (CC1 > CC2 /\ HasCycleBeforeCutoff) => inspected # <<>>

C10_Witness ==
    /\ pc = "done" /\ features.status = "ok"
    /\ CC1 > CC2
    /\ inspected # <<>>
    /\ features.is_not_early_CV = "False"

(***************************************************************************)
(* Properties of the threshold-crossing solver                             *)
(***************************************************************************)
Called == pc = "done" /\ Len(df) >= 2
AllAbove(d, threshold) == \A i \in 1..Len(d) : d[i].fractional_metric > threshold
Axes == tc_hyper.interpolation_axes
\* the crossing value of every axis has been computed
Resolved == Called /\ Len(tc_out.x_to_threshold) = Len(Axes)
XMin(d, axis) == Min({Column(d[i], axis) : i \in 1..Len(d)})
XMax(d, axis) == Max({Column(d[i], axis) : i \in 1..Len(d)})

\* C4: with every fractional_metric above the threshold and extrapolation
\* off, get_threshold_targets fails with the featurization error "has not
\* crossed threshold and extrapolation inaccurate" and produces no table.
C4_NotCrossedRaisesFeaturizationError ==
    (Called /\ AllAbove(df, tc_hyper.threshold) /\ ~tc_hyper.extrapolate_threshold) =>
        /\ tc_out.status = "BEEPFeaturizationError"
        /\ tc_out.msg = "has not crossed threshold and extrapolation inaccurate"
        /\ tc_out.table = <<>>

\* C5: whatever the list of axes, a crossing value that is not positive on
\* any axis makes get_threshold_targets raise the featurization error and
\* return no table; a table is returned only with every crossing value
\* positive.
C5_EveryAxisPositiveOrError ==
    Resolved =>
        /\ (\E i \in 1..Len(Axes) : ~Positive(tc_out.x_to_threshold[i])) =>
              (tc_out.status = "BEEPFeaturizationError" /\ tc_out.table = <<>>)
        /\ tc_out.status = "ok" =>
              \A i \in 1..Len(Axes) : Positive(tc_out.x_to_threshold[i])

\* C6 as stated, of the values alone: with every fractional_metric above the
\* threshold and extrapolation on, the crossing value of each axis is
\* positive, finite and larger than the largest observed x of the axis, for
\* every series of at least two points.
C6_ExtrapolatedBeyondObserved ==
    (Called /\ AllAbove(df, tc_hyper.threshold) /\ tc_hyper.extrapolate_threshold) =>
        /\ Len(tc_out.x_to_threshold) = Len(Axes)
        /\ \A i \in 1..Len(Axes) :
              LET x == tc_out.x_to_threshold[i]
              IN  /\ IsFinite(x)
                  /\ Positive(x)
                  /\ FGt(x, Num(XMax(df, Axes[i])))

StrictlyDecreasing(d) ==
    \A i \in 2..Len(d) : d[i].fractional_metric < d[i - 1].fractional_metric

\* where the line through the last two rows meets the level, <<n, d>>
LineCrossing(d, axis, level) ==
    LET L == Len(d)
        y1 == d[L - 1].fractional_metric
        y2 == d[L].fractional_metric
        x1 == Column(d[L - 1], axis)
        x2 == Column(d[L], axis)
    IN  <<x2 * (y1 - y2) + (y2 - level) * (x2 - x1), y1 - y2>>

\* |c - s| < (e - a)/(NumSamples - 1) for the fractions c, s, e and the
\* integer a, where s and e have the same denominator
WithinOneStep(c, s, e, a) ==
    Abs(c[1] * s[2] - s[1] * c[2]) * (NumSamples - 1) < (e[1] - a * e[2]) * c[2]

\* C6, amended: with extrapolation on and the points kept after the kink filter
\* all above the threshold and strictly decreasing, the crossing value of
\* each axis is finite and less than one step of the linspace (which ends
\* where the line through the last two points meets threshold - 0.1) away
\* from the point where that line meets the threshold, which lies beyond the
\* largest x kept.
C6_ExtrapolatedNearLineCrossing ==
    (Called /\ tc_hyper.extrapolate_threshold
        /\ AllAbove(tc_out.df, tc_hyper.threshold) /\ StrictlyDecreasing(tc_out.df)) =>
        /\ Len(tc_out.x_to_threshold) = Len(Axes)
        /\ \A i \in 1..Len(Axes) :
              LET x == tc_out.x_to_threshold[i]
                  d == tc_out.df
                  s == LineCrossing(d, Axes[i], tc_hyper.threshold)
              IN  /\ IsFinite(x)
                  /\ s[1] > XMax(d, Axes[i]) * s[2]
                  /\ WithinOneStep(x, s,
                         LineCrossing(d, Axes[i], tc_hyper.threshold - ExtrapolationMargin),
                         XMin(d, Axes[i]))

\* three decreasing points above the threshold, three axes, and a crossing
\* value that is not a point of the table
C6_Witness ==
    /\ Called /\ tc_hyper.extrapolate_threshold /\ tc_hyper.filter_kinks = 0
    /\ Len(df) = 3 /\ Len(Axes) = 3
    /\ AllAbove(df, tc_hyper.threshold) /\ StrictlyDecreasing(df)
    /\ tc_out.status = "ok"
    /\ tc_out.x_to_threshold[1][2] > 1

\* the rows whose second difference is below the negated magnitude
Kinks(d, m) == {i \in 3..Len(d) : SecondDiff(d, i) < -m}

\* C7: with filter_kinks = m > 0 the series is truncated exactly when some
\* second difference of fractional_metric is below -m, to the points before
\* the first such point; otherwise every point is kept.
C7_TruncatesBelowNegatedMagnitude ==
    (Called /\ tc_hyper.filter_kinks > 0) =>
        tc_out.df = IF Kinks(df, tc_hyper.filter_kinks) = {} THEN df
                    ELSE SubSeq(df, 1, Min(Kinks(df, tc_hyper.filter_kinks)) - 1)

\* C8: for a series whose second differences stay within the magnitude up to
\* a first point where one falls below the negated magnitude, the solver with
\* the kink filter gives what the solver without it gives on the points
\* before that point.
C8_SameAsSolverOnPointsBeforeOutlier ==
    LET m == tc_hyper.filter_kinks
        k == Kinks(df, m)
    IN  (Called /\ m > 0 /\ k # {}
            /\ \A i \in 3..(Min(k) - 1) : Abs(SecondDiff(df, i)) <= m) =>
            LET alone == get_threshold_targets(
                             SubSeq(df, 1, Min(k) - 1),
                             [tc_hyper EXCEPT !.filter_kinks = 0])
            IN  /\ tc_out.status = alone.status
                /\ tc_out.x_to_threshold = alone.x_to_threshold
                /\ tc_out.table = alone.table

\* the rows lie on one descending line of the axis
LinearDecreasing(d, axis) ==
    LET L == Len(d)
    IN  /\ d[L].fractional_metric < d[1].fractional_metric
        /\ \A i \in 2..(L - 1) :
              (d[i].fractional_metric - d[1].fractional_metric)
                  * (Column(d[L], axis) - Column(d[1], axis))
              = (d[L].fractional_metric - d[1].fractional_metric)
                  * (Column(d[i], axis) - Column(d[1], axis))

\* where the line through the first and the last row meets the threshold
ExactCrossing(d, axis, threshold) ==
    LET L == Len(d)
        y1 == d[1].fractional_metric
        yL == d[L].fractional_metric
        x1 == Column(d[1], axis)
        xL == Column(d[L], axis)
    IN  <<x1 * (y1 - yL) + (y1 - threshold) * (xL - x1), y1 - yL>>

\* C9: when the points the solver works on (those kept after the kink filter)
\* lie on a descending line of an axis and their smallest fractional_metric
\* is at or below the threshold, the crossing value of that axis is within
\* (max x - min x)/1000 of the point where the line meets the threshold.
C9_LinearCrossingWithinResolution ==
    (Resolved /\ ~AllAbove(tc_out.df, tc_hyper.threshold)) =>
        \A i \in 1..Len(Axes) :
            LinearDecreasing(tc_out.df, Axes[i]) =>
                LET x == tc_out.x_to_threshold[i]
                    d == tc_out.df
                    e == ExactCrossing(d, Axes[i], tc_hyper.threshold)
                IN  /\ IsFinite(x)
                    /\ Abs(x[1] * e[2] - e[1] * x[2]) * 1000
                         <= (XMax(d, Axes[i]) - XMin(d, Axes[i])) * x[2] * e[2]

\* a descending line that meets the threshold between two samples of the
\* linspace
C9_Witness ==
    /\ Resolved /\ tc_out.status = "ok" /\ tc_hyper.filter_kinks = 0
    /\ \E i \in 1..Len(Axes) :
          /\ LinearDecreasing(df, Axes[i])
          /\ df[Len(df)].fractional_metric < tc_hyper.threshold
          /\ tc_out.x_to_threshold[i] # ExactCrossing(df, Axes[i], tc_hyper.threshold)
          /\ tc_out.x_to_threshold[i][2] > 1

(***************************************************************************)
(* Properties of the single rules of the exclusion criteria                *)
(***************************************************************************)
Made == pc = "done" /\ features.status = "ok"
EOLThreshold == ECHyper.EOL_conditions.threshold
LastFilled == FfillAt(FracMetric(diag_fractional), Len(diag_fractional))
\* the value the end-of-test rule judges
Judged ==
    IF FGt(LastFilled, Num(1)) /\ Len(diag_fractional) >= 2
    THEN FfillAt(FracMetric(diag_fractional), Len(diag_fractional) - 1)
    ELSE LastFilled

\* C11: is_below_fractional_capacity_at_EOT is true exactly when the judged
\* value is below the EOL threshold; the judged value is the last
\* forward-filled fractional_metric, or the one before it when the last
\* exceeds 1; fractional_capacity_at_EOT reports the judged value.
C11_JudgedValueBelowThreshold ==
    Made =>
        /\ features.fractional_capacity_at_EOT = Judged
        /\ features.is_below_fractional_capacity_at_EOT = Cell(FLt(Judged, EOLThreshold))

\* the last value exceeds 1 and the one before it is below the threshold
C11_Witness ==
    /\ Made
    /\ FGt(LastFilled, Num(1))
    /\ FLt(Judged, EOLThreshold)
    /\ features.is_below_fractional_capacity_at_EOT = "True"

BelowRows ==
    {i \in 1..Len(diag_fractional) :
        FLt(diag_fractional[i].fractional_metric, EOLThreshold)}
LastDiagCycle == diag_fractional[Len(diag_fractional)].cycle_index
FirstBelowCycle == diag_fractional[Min(BelowRows)].cycle_index
Nominal ==
    IF structuring_parameters.has_nominal_capacity
    THEN structuring_parameters.nominal_capacity
    ELSE parameters.capacity_nominal
\* the last regular cycle at or before the cycle c
RowsUpTo(c) == {i \in 1..Len(structured_summary) : structured_summary[i].cycle_index <= c}
Over(t, k) == IF IsNaN(t) THEN NaN ELSE <<t[1], t[2] * k>>
EFCFlag(v) == Cell(FGt(v, ECHyper.equivalent_full_cycles_cutoff))

\* C12 as stated: the cutoff cycle is the first diagnostic cycle below the
\* threshold whenever any diagnostic is below it, else the last diagnostic
\* cycle; the value is the charge_throughput (a missing one forward-filled)
\* of the last regular cycle at or before the cutoff over the nominal
\* capacity, and the flag is true exactly when the value exceeds
\* equivalent_full_cycles_cutoff.
C12_CutoffAtFirstCrossing ==
    LET c == IF BelowRows # {} THEN FirstBelowCycle ELSE LastDiagCycle
    IN  (Made /\ RowsUpTo(c) # {}) =>
            LET v == Over(FfillAt(ChargeThroughput(structured_summary),
                                  Max(RowsUpTo(c))), Nominal)
            IN  /\ features.equivalent_full_cycles_at_EOL = v
                /\ features.is_above_equivalent_full_cycles_at_EOL = EFCFlag(v)

\* C12, amended: the cutoff cycle is the first diagnostic cycle below the
\* threshold when is_below_fractional_capacity_at_EOT is true, else the last
\* diagnostic cycle; the value is the forward-filled charge_throughput of the
\* last regular cycle at or before the cutoff over the nominal capacity, and
\* the flag is true exactly when the value exceeds the cutoff; with no
\* regular cycle at or before the cutoff, value and flag are missing.
C12_CutoffWhereEOLJudgedReached ==
    LET c == IF features.is_below_fractional_capacity_at_EOT = "True"
             THEN FirstBelowCycle ELSE LastDiagCycle
    IN  Made =>
            IF RowsUpTo(c) = {}
            THEN /\ IsNaN(features.equivalent_full_cycles_at_EOL)
                 /\ features.is_above_equivalent_full_cycles_at_EOL = Missing
            ELSE LET v == Over(FfillAt(ChargeThroughput(structured_summary),
                                       Max(RowsUpTo(c))), Nominal)
                 IN  /\ features.equivalent_full_cycles_at_EOL = v
                     /\ features.is_above_equivalent_full_cycles_at_EOL = EFCFlag(v)

\* a diagnostic below the threshold, the judged value not below it, and a
\* regular cycle with its own throughput after that diagnostic
C12_Witness ==
    /\ Made
    /\ BelowRows # {}
    /\ features.is_below_fractional_capacity_at_EOT = "False"
    /\ RowsUpTo(FirstBelowCycle) # {}
    /\ Max(RowsUpTo(LastDiagCycle)) > Max(RowsUpTo(FirstBelowCycle))
    /\ features.is_above_equivalent_full_cycles_at_EOL = "True"
    /\ ~FGt(structured_summary[Max(RowsUpTo(FirstBelowCycle))].charge_throughput,
            ECHyper.equivalent_full_cycles_cutoff)

RowsAtN ==
    {i \in 1..Len(structured_summary) :
        structured_summary[i].cycle_index = ECHyper.throughput_first_n_cycles.n}

Created(name) == extractor = name /\ pc = "done"

\* the difference steps that the call has reached
Diffs == {outcome.diffs[i] : i \in 1..Len(outcome.diffs)}

\* the arrays that were handed to get_summary_statistics
Passed == {d \in Diffs : d.status = "ok"}

Entries(a) == {a[i] : i \in 1..Len(a)}

\* C14: for DiagnosticSummaryStats, whenever validate has returned
\* (True, None), create_features does not fail on a diagnostic position or a
\* cycle type that is unavailable, neither among the cycles of the filtered
\* diagnostic_data nor in get_summary_diff.
C14_ValidatedPositionsAvailable ==
    (Created("DiagnosticSummaryStats") /\ valid.ok /\ valid.reason = "")
        => outcome.status # "IndexError"

RECURSIVE IsSubsequence(_, _)
IsSubsequence(a, b) ==
    IF a = <<>> THEN TRUE
    ELSE IF b = <<>> THEN FALSE
    ELSE IF Head(a) = Head(b) THEN IsSubsequence(Tail(a), Tail(b))
    ELSE IsSubsequence(a, Tail(b))

Filtering ==
    Created("HPPCResistanceVoltageFeatures") \/ Created("DiagnosticSummaryStats")

\* C15: after create_features of HPPCResistanceVoltageFeatures or
\* DiagnosticSummaryStats, diagnostic_data is an order-preserving subsequence
\* of the rows it had before, without any row that has test_time above
\* test_time_filter_sec and cycle_index below cycle_index_filter, and without
\* any (cycle_index, step_index, step_index_counter) group whose test_time
\* values are all null.
C15_FilteringOnlyRemovesRows ==
    Filtering =>
        /\ IsSubsequence(diagnostic_data, outcome.before)
        /\ \A i \in 1..Len(diagnostic_data) :
              /\ ~(/\ FGt(diagnostic_data[i].test_time,
                          Num(hyperparameters.test_time_filter_sec))
                   /\ diagnostic_data[i].cycle_index
                          < hyperparameters.cycle_index_filter)
              /\ \E k \in 1..Len(diagnostic_data) :
                    /\ diagnostic_data[k].cycle_index = diagnostic_data[i].cycle_index
                    /\ diagnostic_data[k].step_index = diagnostic_data[i].step_index
                    /\ diagnostic_data[k].step_index_counter
                          = diagnostic_data[i].step_index_counter
                    /\ ~IsNaN(diagnostic_data[k].test_time)

\* rows of a final diagnostic and a group of null test_time were removed,
\* other rows stay
C15_Witness ==
    /\ Filtering
    /\ diagnostic_data # <<>>
    /\ \E i \in 1..Len(outcome.before) :
          /\ FGt(outcome.before[i].test_time, Num(hyperparameters.test_time_filter_sec))
          /\ outcome.before[i].cycle_index < hyperparameters.cycle_index_filter
    /\ \E i \in 1..Len(outcome.before) :
          /\ IsNaN(outcome.before[i].test_time)
          /\ ~final_diagnostic(outcome.before[i], hyperparameters)

EqualLengths(d) == Len(d.later) = Len(d.earlier)

\* C18 as stated: every difference array handed to get_summary_statistics by
\* create_features of CycleSummaryStats and DiagnosticSummaryStats, taken from
\* two selections of equal length, has only finite entries.
C18_NoNonFiniteEntries ==
    \A d \in Passed : EqualLengths(d) => \A x \in Entries(d.array) : IsFinite(x)

\* the positions of two selections whose difference is not nan
Defined(d) ==
    {i \in 1..Len(d.later) :
        /\ ~IsNaN(d.later[i]) /\ ~IsNaN(d.earlier[i])
        /\ ~(~IsFinite(d.later[i]) /\ d.later[i] = d.earlier[i])}

\* C18: every difference array handed to get_summary_statistics, taken from
\* two selections of equal length, has no nan entry and one entry for every
\* position where the difference is not nan, an infinite one where exactly
\* one of the two values is infinite or the two are infinities of opposite
\* sign.
C18_NoNaNEntries ==
    \A d \in Passed : EqualLengths(d) =>
        /\ \A x \in Entries(d.array) : ~IsNaN(x)
        /\ Len(d.array) = Cardinality(Defined(d))
        /\ (\E i \in Defined(d) : ~IsFinite(d.later[i]) \/ ~IsFinite(d.earlier[i]))
              => \E x \in Entries(d.array) : ~IsFinite(x)

\* a nan difference was dropped and an infinite one was handed on
C18_Witness ==
    \E d \in Passed :
        /\ EqualLengths(d)
        /\ Cardinality(Defined(d)) < Len(d.later)
        /\ \E x \in Entries(d.array) : ~IsFinite(x)

OneEmpty(d) == d.later = <<>> \/ d.earlier = <<>>

\* C19 as stated: when one of the two selections is empty, whatever the length
\* of the other, the difference step yields an empty array and does not raise.
C19_EmptySelectionYieldsEmptyArray ==
    \A d \in Diffs : OneEmpty(d) => d.status = "ok" /\ d.array = <<>>

\* C19: when one of the two selections is empty, the difference step yields
\* an empty array if the other has at most one row, and the call then fails
\* in get_summary_statistics; if the other has two rows or more the
\* subtraction itself raises ValueError.
C19_EmptyAgainstAtMostOneRow ==
    \A d \in Diffs : OneEmpty(d) =>
        IF Len(d.later) + Len(d.earlier) <= 1
        THEN /\ d.status = "ok" /\ d.array = <<>>
             /\ outcome.status = "ValueError" /\ outcome.at = "get_summary_statistics"
        ELSE /\ d.status = "ValueError"
             /\ outcome.status = "ValueError" /\ outcome.at = "difference"

\* an empty selection met one of a single row
C19_Witness ==
    \E d \in Diffs : OneEmpty(d) /\ Len(d.later) + Len(d.earlier) = 1

HasRows(cycle) ==
    \E i \in 1..Len(structured_data) : structured_data[i].cycle_index = cycle

\* C20 as stated: CycleSummaryStats.validate never raises; it returns False
\* with a reason when a comparison cycle has no rows or one of
\* charge_capacity, discharge_capacity, charge_energy, discharge_energy is
\* not among the columns, and (True, None) otherwise.
C20_ValidateNeverRaises ==
    (extractor = "CycleSummaryStats" /\ pc # "ready") =>
        /\ valid.status = "ok"
        /\ valid.ok <=> (/\ HasRows(hyperparameters.cycle_comp_num[1])
                         /\ HasRows(hyperparameters.cycle_comp_num[2])
                         /\ required_columns \subseteq sd_columns)
        /\ valid.ok <=> (valid.reason = "")

\* the fields of the datapath that no featurizer may change
frameVars ==
    <<structured_data, sd_columns, structured_summary, diagnostic_summary, paths,
      structuring_parameters>>

\* C16: no validate and no create_features changes structured_data,
\* structured_summary, diagnostic_summary, paths or structuring_parameters;
\* validate changes nothing of the datapath or the featurizer; diagnostic_data
\* changes only in create_features of HPPCResistanceVoltageFeatures and
\* DiagnosticSummaryStats, by the removal of rows.
C16_DatapathUnchanged ==
    [][/\ UNCHANGED frameVars
       /\ pc = "ready" =>
             UNCHANGED <<diagnostic_data, diag_fractional, parameters,
                         hyperparameters, features, outcome>>
       /\ diagnostic_data' # diagnostic_data =>
             /\ pc = "validated"
             /\ extractor \in {"HPPCResistanceVoltageFeatures",
                               "DiagnosticSummaryStats"}
             /\ IsSubsequence(diagnostic_data', diagnostic_data)]_vars

\* DeltaQFastCharge.create_features has set the zeros of its internal
\* resistance trend to nan
C16_Witness ==
    /\ Created("DeltaQFastCharge")
    /\ outcome.status = "ok"
    /\ \E i \in 2..outcome.before.final_pred_cycle :
          structured_summary[i].dc_internal_resistance = Num(0)

\* C17 as stated: create_features leaves the hyperparameters as they were at
\* construction, and after DeltaQFastCharge.create_features the feature
\* nominal_capacity_by_median is the median discharge capacity of the first
\* n_nominal_cycles cycles of the summary, for the configured n_nominal_cycles.
C17_HyperparametersKept ==
    Created("DeltaQFastCharge") =>
        /\ hyperparameters = outcome.before
        /\ outcome.status = "ok" =>
              features.nominal_capacity_by_median =
                  Median([i \in 1..Min({outcome.before.n_nominal_cycles,
                                        Len(structured_summary)}) |->
                             structured_summary[i].discharge_capacity])

(***************************************************************************)
(* Further properties of the threshold-crossing solver                     *)
(***************************************************************************)
RealColumns ==
    {i \in 1..Len(tc_out.table) : tc_out.table[i].column = "real_regular_throughput"}

Normalized == "normalized_regular_throughput"

\* C21: the table returned by get_threshold_targets has one more column,
\* real_regular_throughput, exactly when normalized_regular_throughput is one
\* of the interpolation axes; its value is the crossing value of that axis
\* times the initial_regular_throughput of the first row; the call leaves the
\* interpolation_axes hyperparameter as it was.
C21_RealThroughputColumn ==
    /\ [](tc_out.status = "ok" =>
            /\ Len(tc_out.table) = 1 + Len(Axes) + Cardinality(RealColumns)
            /\ IF InSeq(Normalized, Axes)
               THEN /\ RealColumns = {Len(tc_out.table)}
                    /\ LET real == tc_out.table[Len(tc_out.table)].value
                           x == tc_out.x_to_threshold[IndexOf(Axes, Normalized)]
                       IN  real[1] * x[2]
                             = x[1] * tc_out.df[1].initial_regular_throughput * real[2]
               ELSE RealColumns = {})
    /\ [][tc_hyper' = tc_hyper]_vars

\* a table with the real throughput has been returned
C21_Witness ==
    /\ tc_out.status = "ok"
    /\ InSeq(Normalized, Axes)
    /\ RealColumns # {}

\* the sample k of the grid of an axis, from the smallest to the largest x
\* of the points the solver works on, and abs(f(x) - threshold) there (times
\* a factor that is the same at every sample)
GridPoint(d, axis, k) == Linspace(XMin(d, axis), <<XMax(d, axis), 1>>, k)
GridError(d, axis, k) ==
    CrossingError([i \in 1..Len(d) |-> Column(d[i], axis)],
                  [i \in 1..Len(d) |-> d[i].fractional_metric],
                  tc_hyper.threshold, GridPoint(d, axis, k),
                  WidthProduct([i \in 1..Len(d) |-> Column(d[i], axis)], 2))
\* the samples at which the crossing value x lies
SamplesAt(d, axis, x) ==
    {k \in 0..(NumSamples - 1) :
        GridPoint(d, axis, k)[1] * x[2] = x[1] * GridPoint(d, axis, k)[2]}

\* C24: when the smallest fractional_metric (of the points kept after the kink
\* filter) is at or below the threshold, the crossing value of each axis is
\* the point of the 1000-sample uniform grid from the smallest to the largest
\* x of that axis at which abs(interpolant(x) - threshold) is smallest, the
\* lowest such grid point on ties; it lies within the observed x range, also
\* for series that are not monotonic.
C24_CrossingIsFirstGridMinimum ==
    (Resolved /\ ~AllAbove(tc_out.df, tc_hyper.threshold)) =>
        \A i \in 1..Len(Axes) :
            LET d == tc_out.df
                x == tc_out.x_to_threshold[i]
                xs == [r \in 1..Len(d) |-> Column(d[r], Axes[i])]
                ys == [r \in 1..Len(d) |-> d[r].fractional_metric]
                a == XMin(d, Axes[i])
                b == <<XMax(d, Axes[i]), 1>>
                widths == WidthProduct(xs, 2)
                Error(j) == CrossingError(xs, ys, tc_hyper.threshold,
                                          Linspace(a, b, j), widths)
                at == {k \in 0..(NumSamples - 1) :
                          Linspace(a, b, k)[1] * x[2] = x[1] * Linspace(a, b, k)[2]}
            IN  /\ Cardinality(at) = 1
                /\ LET k == CHOOSE k \in at : TRUE
                       smallest == Error(k)
                   IN  \A j \in 0..(NumSamples - 1) :
                          IF j < k THEN smallest < Error(j) ELSE smallest <= Error(j)
                /\ ~FLt(x, Num(XMin(df, Axes[i])))
                /\ ~FGt(x, Num(XMax(df, Axes[i])))

\* a series that falls to the threshold and rises again, whose grid has
\* a later sample as close to the threshold as the one returned
C24_Witness ==
    /\ Resolved /\ tc_out.status = "ok" /\ tc_hyper.filter_kinks = 0
    /\ ~AllAbove(df, tc_hyper.threshold)
    /\ df[Len(df)].fractional_metric > df[Len(df) - 1].fractional_metric
    /\ \E k \in SamplesAt(df, Axes[1], tc_out.x_to_threshold[1]) :
          \E j \in (k + 1)..(NumSamples - 1) :
              GridError(df, Axes[1], j) = GridError(df, Axes[1], k)

PreEOL == {i \in 1..Len(structured_summary) :
              structured_summary[i].cycle_index <= CutoffCycle}
EarlyRows ==
    {i \in PreEOL :
        LET r == structured_summary[i]
        IN  (r.CV_onset_time - r.cycle_start_time) * ECHyper.early_CV_cutoff[2]
               < ECHyper.early_CV_cutoff[1] * (r.cycle_end_time - r.cycle_start_time)}
\* the rows the loop has to examine: up to the first early one
Examined ==
    IF EarlyRows = {} THEN PreEOL ELSE {i \in PreEOL : i <= Min(EarlyRows)}

\* C25: when the early-CV rule is evaluated (CC1 above CC2), is_not_early_CV is
\* false exactly when some regular cycle at or before the cutoff cycle has
\* (CV onset - cycle start)/(cycle end - cycle start) strictly below
\* early_CV_cutoff; the cycles are examined in the order of the summary and
\* none after the first failing one.
C25_EarlyCVShortCircuit ==
    (Made /\ CC1 > CC2) =>
        /\ features.is_not_early_CV = "False" <=> EarlyRows # {}
        /\ Len(inspected) = Cardinality(Examined)
        /\ \A k \in 1..Len(inspected) :
              /\ \E i \in Examined : structured_summary[i].cycle_index = inspected[k]
              /\ k > 1 => inspected[k - 1] < inspected[k]

\* a cycle follows the first early one before the cutoff and is not examined
C25_Witness ==
    /\ Made /\ CC1 > CC2
    /\ EarlyRows # {}
    /\ Examined # PreEOL
    /\ features.is_not_early_CV = "False"

(***************************************************************************)
(* Further properties of the datapath featurizers                          *)
(***************************************************************************)
\* the step type and the column that the name of a difference array stands for
NamedStepType(name) ==
    IF name \in {"QcDiff", "EcDiff"} THEN "charge" ELSE "discharge"
NamedColumn(name) ==
    CASE name = "QcDiff" -> "charge_capacity"
      [] name = "QdDiff" -> "discharge_capacity"
      [] name = "EcDiff" -> "charge_energy"
      [] OTHER -> "discharge_energy"

\* C27: each of the four difference arrays of CycleSummaryStats is taken over
\* the rows whose step_type matches its name: the charging arrays over the
\* "charge" rows, the discharging arrays over the "discharge" rows.
C27_StepTypeMatchesFeatureName ==
    Created("CycleSummaryStats") =>
        \A d \in Diffs :
            /\ d.later = Selection(structured_data, CSSHyper.cycle_comp_num[2],
                                   NamedStepType(d.name), NamedColumn(d.name))
            /\ d.earlier = Selection(structured_data, CSSHyper.cycle_comp_num[1],
                                     NamedStepType(d.name), NamedColumn(d.name))

(***************************************************************************)
(* Properties of DiagnosticProperties.create_features                      *)
(***************************************************************************)
\* the rows of the accumulated table of the configured cycle type and metric
ConfiguredRows ==
    LET Configured(r) == /\ r.cycle_type = tc_hyper.cycle_type
                         /\ r.metric = tc_hyper.metric
    IN  SelectSeq(df, Configured)

\* C26: the crossing values DiagnosticProperties reports are computed only
\* from the rows of the accumulated table whose cycle_type and metric are
\* those of the hyperparameters: the rows of other quantities or cycle types
\* change neither the threshold test nor the interpolation, so the result is
\* that of get_threshold_targets on the configured rows alone.
C26_OnlyConfiguredRowsCount ==
    Created("DiagnosticProperties") =>
        LET alone == get_threshold_targets(ConfiguredRows, tc_hyper)
        IN  /\ tc_out.status = alone.status
            /\ tc_out.x_to_threshold = alone.x_to_threshold
            /\ tc_out.table = alone.table

(***************************************************************************)
(* Properties of DeltaQFastCharge.create_features                          *)
(***************************************************************************)
\* the features of the same call on a table with one discharge row at each
\* of the two compared cycles
WithDischargeRows ==
    DeltaQFastCharge_create_features(
        structured_summary, structured_summary,
        <<StructuredRow(9, "discharge", <<NaN, Num(1)>>),
          StructuredRow(hyperparameters.final_pred_cycle - 1, "discharge",
                        <<NaN, Num(2)>>)>>,
        AllColumns, hyperparameters).features

\* C28: when the array of discharge-capacity differences is empty, the six
\* abs_*_discharge_capacity_difference features are all nan in the one-row
\* table, and every other feature holds its normally computed value.
C28_EmptyDifferenceGivesNaN ==
    (Created("DeltaQFastCharge") /\ outcome.status = "ok" /\ features.Qd_diff = 0) =>
        /\ features.discharge_capacity_difference = [i \in 1..6 |-> NaN]
        /\ [features EXCEPT !.discharge_capacity_difference = <<>>, !.Qd_diff = 0]
             = [WithDischargeRows EXCEPT !.discharge_capacity_difference = <<>>,
                                         !.Qd_diff = 0]

(***************************************************************************)
(* create_features called twice                                            *)
(***************************************************************************)
\* C23: for HPPCResistanceVoltageFeatures and DiagnosticSummaryStats a second
\* create_features on the same datapath removes no further row from
\* diagnostic_data and ends as the first did: the same exception, or the same
\* arrays handed to get_summary_statistics, hence the same feature table.
C23_SecondRunChangesNothing ==
    [][(pc = "done" /\ pc' = "repeated") =>
          /\ diagnostic_data' = diagnostic_data
          /\ outcome'.status = outcome.status
          /\ outcome'.at = outcome.at
          /\ outcome'.diffs = outcome.diffs]_vars

\* the second call of DiagnosticSummaryStats has made its features, as the
\* first did
C23_Witness ==
    /\ pc = "repeated"
    /\ extractor = "DiagnosticSummaryStats"
    /\ outcome.status = "ok"
    /\ Len(outcome.diffs) = 6

====
